---- MODULE Spec2Model ----
(***************************************************************************)
(* Storage cycle / energy / profit engine of backend/services/cycles.py.   *)
(*                                                                         *)
(* Python floats are modelled as exact rationals <<n, d>> (d > 0, lowest   *)
(* terms).  The tolerances of the code (1e-9, 1e-6) are compared exactly,  *)
(* without ever forming a product that leaves the 32-bit integer range.    *)
(***************************************************************************)
EXTENDS Integers, Sequences, FiniteSets, TLC

VARIABLES
    pc,              \* position in the request pipeline
    storage_cfg,     \* the "storage" payload dict
    energy_formula,  \* "physics" | "sample"
    metering,        \* [mode, kva, pf]: arguments of compute_limit_info
    series_15m,      \* sequence of [date, hour, load_kw], sorted by time
    daily_ops,       \* date -> 24 op labels
    price_series,    \* sequence of prices (a rational or None), one per point
    limit_info,      \* result of compute_limit_info
    daily_masks,     \* result of build_daily_cycles_masks
    days,            \* first result of compute_window_avg_days_with_debug
    window_debug,    \* second result of compute_window_avg_days_with_debug
    window_targets,  \* build_step15_power_series: (date, window) targets
    window_state,    \* build_step15_power_series: running totals per key
    current_soc,     \* build_step15_power_series: state of charge
    idx,             \* build_step15_power_series: next point to process
    records,         \* build_step15_power_series: emitted rows
    trace,           \* local values of the last loop iteration, per clipping stage
    profit,          \* result of compute_profit_summary_step15
    prev_run,        \* window_debug and capacity of the previous calculator run
    call,            \* function name, arguments and result of a single function call
    stored_snapshot  \* local_sync: content of the file at SNAPSHOT_PATH, None if absent

vars == <<pc, storage_cfg, energy_formula, metering, series_15m, daily_ops,
          price_series, limit_info, daily_masks, days, window_debug,
          window_targets, window_state, current_soc, idx, records, trace,
          profit, prev_run, call,
          stored_snapshot>>

\* Python None where a number is expected, and where an op label is expected
None == <<>>
NoKind == "none"

-----------------------------------------------------------------------------
(* Exact rational arithmetic.                                              *)

Abs(n) == IF n < 0 THEN -n ELSE n

RECURSIVE GCD(_, _)
GCD(a, b) == IF b = 0 THEN a ELSE GCD(b, a % b)

Norm(n, d) ==
    LET s == IF d < 0 THEN -1 ELSE 1
        g == GCD(Abs(n), Abs(d))
    IN  IF n = 0 THEN <<0, 1>> ELSE <<(s * n) \div g, (s * d) \div g>>

R(n, d) == Norm(n, d)
Zero == <<0, 1>>
One == <<1, 1>>

\* sums and comparisons over the least common denominator
RAdd(x, y) ==
    LET g == GCD(x[2], y[2])
    IN  Norm(x[1] * (y[2] \div g) + y[1] * (x[2] \div g), (x[2] \div g) * y[2])
RSub(x, y) == RAdd(x, <<-y[1], y[2]>>)
RMul(x, y) ==
    LET a == Norm(x[1], y[2])
        b == Norm(y[1], x[2])
    IN  IF x[1] = 0 \/ y[1] = 0 THEN <<0, 1>> ELSE <<a[1] * b[1], a[2] * b[2]>>
RDiv(x, y) == RMul(x, Norm(y[2], y[1]))
RNeg(x) == <<-x[1], x[2]>>
RLt(x, y) ==
    LET g == GCD(x[2], y[2]) IN x[1] * (y[2] \div g) < y[1] * (x[2] \div g)
RLe(x, y) == ~RLt(y, x)
RGt(x, y) == RLt(y, x)
RGe(x, y) == RLe(y, x)
RMax(x, y) == IF RLt(x, y) THEN y ELSE x
RMin(x, y) == IF RLt(y, x) THEN y ELSE x
RAbs(x) == <<Abs(x[1]), x[2]>>
RPos(x) == x[1] > 0

\* x > y + 1/E, for a tolerance 1/E:  n/d > 1/E  <=>  n > floor(d / E)
GtTol(x, y, E) == LET r == RSub(x, y) IN r[1] > (r[2] \div E)
\* x <= k/E:  n/d <= k/E  <=>  n <= floor(k*d / E)
LeTol(x, y, E) == ~GtTol(x, y, E)
\* max(x, 1/E):  n/d >= 1/E  <=>  n > floor((d-1) / E)
MaxEps(x, E) == IF x[1] > ((x[2] - 1) \div E) THEN x ELSE <<1, E>>

E9 == 1000000000
E6 == 1000000

\* Python `x or default`: None and 0 are both falsy
OrDefault(x, default) == IF x = None \/ x = Zero THEN default ELSE x

RECURSIVE SumSeq(_)
SumSeq(s) == IF s = <<>> THEN Zero ELSE RAdd(Head(s), SumSeq(Tail(s)))

RECURSIVE SortedSeq(_)
SortedSeq(S) ==
    IF S = {} THEN <<>>
    ELSE LET m == CHOOSE x \in S : \A y \in S : x <= y
         IN  <<m>> \o SortedSeq(S \ {m})

SeqSet(s) == {s[i] : i \in 1..Len(s)}

-----------------------------------------------------------------------------
(* Labels.                                                                 *)

OP_STANDBY == "standby"
OP_CHARGE == "charge"
OP_DISCHARGE == "discharge"
dt_hours == R(1, 4)
HoursPerDay == 24

-----------------------------------------------------------------------------
(* Limit Resolver: compute_limit_info.                                     *)

\* 'YYYY-MM' of a date; a date is <<month, day>> of one year
YearMonth(date) == date[1]

\* the first load of the month in place of the largest
FirstLoad(s) == s[1].load_kw

RECURSIVE MaxLoad(_)
MaxLoad(s) ==
    IF Len(s) = 1 THEN s[1].load_kw ELSE RMax(s[1].load_kw, MaxLoad(Tail(s)))

compute_limit_info(series, metering_mode, kva, pf) ==
    LET mode0 == IF metering_mode \in {"monthly_demand_max", "transformer_capacity"}
                 THEN metering_mode ELSE "monthly_demand_max"
        s == SelectSeq(series, LAMBDA p : p.load_kw # None)
        months == {YearMonth(s[i].date) : i \in 1..Len(s)}
        monthly == [ym \in months |->
                      MaxLoad(SelectSeq(s, LAMBDA p : YearMonth(p.date) = ym))]
        notes0 == IF series = <<>> THEN <<"empty series">> ELSE <<>>
        missing == mode0 = "transformer_capacity" /\ (kva = None \/ pf = None)
    IN  [limit_mode |-> IF missing THEN "monthly_demand_max" ELSE mode0,
         monthly_demand_max |-> monthly,
         transformer_limit_kw |->
             IF mode0 = "transformer_capacity" /\ ~missing THEN RMul(kva, pf) ELSE None,
         notes |-> IF missing THEN Append(notes0, "transformer parameters missing")
                   ELSE notes0]

\* _day_limit_kw of compute_window_avg_days_with_debug and build_step15_power_series
_day_limit_kw(li, ym) ==
    IF li.limit_mode = "transformer_capacity"
       /\ li.transformer_limit_kw # None /\ li.transformer_limit_kw # Zero
    THEN li.transformer_limit_kw
    ELSE IF ym \in DOMAIN li.monthly_demand_max THEN li.monthly_demand_max[ym] ELSE Zero

-----------------------------------------------------------------------------
(* Window Extractor: _hour_runs_from_ops, build_daily_cycles_masks.        *)

\* a merge that keeps the last run beside the merged one
MergeHeadTailKeepingLast(runs, enabled) ==
    IF ~enabled \/ Len(runs) <= 1 THEN runs
    ELSE IF runs[1].kind = runs[Len(runs)].kind
         THEN <<[kind |-> runs[1].kind,
                 hours |-> SortedSeq(SeqSet(runs[Len(runs)].hours)
                                     \cup SeqSet(runs[1].hours))]>>
              \o SubSeq(runs, 2, Len(runs))
         ELSE runs

_merge_head_tail_runs(runs, enabled) ==
    IF ~enabled \/ Len(runs) <= 1 THEN runs
    ELSE LET first == runs[1]
             last == runs[Len(runs)]
         IN  IF first.kind = last.kind
             THEN <<[kind |-> first.kind,
                     hours |-> SortedSeq(SeqSet(last.hours) \cup SeqSet(first.hours))]>>
                  \o SubSeq(runs, 2, Len(runs) - 1)
             ELSE runs

\* the scan of hours h..23 with the runs closed so far and the open run
RECURSIVE RunsScan(_, _, _, _, _)
RunsScan(ops, h, runs, cur_kind, cur_hours) ==
    LET closed == IF cur_kind # NoKind
                  THEN Append(runs, [kind |-> cur_kind, hours |-> cur_hours])
                  ELSE runs
    IN  IF h >= HoursPerDay THEN closed
        ELSE IF ops[h + 1] \notin {OP_CHARGE, OP_DISCHARGE}
             THEN RunsScan(ops, h + 1, closed, NoKind, <<>>)
        ELSE IF cur_kind # ops[h + 1]
             THEN RunsScan(ops, h + 1, closed, ops[h + 1], <<h>>)
        ELSE RunsScan(ops, h + 1, runs, cur_kind, Append(cur_hours, h))

_hour_runs_from_ops(ops, wrap_across_midnight) ==
    _merge_head_tail_runs(RunsScan(ops, 0, <<>>, NoKind, <<>>), wrap_across_midnight)

\* hours of the surviving runs i (1-based) that go to one window and kind
RunHours(runs_flt, in_window(_), kind) ==
    UNION {SeqSet(runs_flt[i].hours) :
             i \in {j \in 1..Len(runs_flt) : in_window(j) /\ runs_flt[j].kind = kind}}

\* masks that number the runs before the threshold filter
MasksOfDayByRunIndex(ops, merge_threshold_minutes, wrap_across_midnight) ==
    LET runs_pre == _hour_runs_from_ops(ops, wrap_across_midnight)
        Kept(i) == ~(Len(runs_pre[i].hours) * 60 < merge_threshold_minutes)
        InC1(i) == Kept(i) /\ i - 1 < 2
        InC2(i) == Kept(i) /\ ~(i - 1 < 2)
    IN  [c1 |-> [charge_hours |-> SortedSeq(RunHours(runs_pre, InC1, OP_CHARGE)),
                 discharge_hours |-> SortedSeq(RunHours(runs_pre, InC1, OP_DISCHARGE))],
         c2 |-> [charge_hours |-> SortedSeq(RunHours(runs_pre, InC2, OP_CHARGE)),
                 discharge_hours |-> SortedSeq(RunHours(runs_pre, InC2, OP_DISCHARGE))]]

MasksOfDay(ops, merge_threshold_minutes, wrap_across_midnight) ==
    LET runs_pre == _hour_runs_from_ops(ops, wrap_across_midnight)
        runs_flt == SelectSeq(runs_pre,
                      LAMBDA r : ~(Len(r.hours) * 60 < merge_threshold_minutes))
        InC1(i) == i - 1 < 2
        InC2(i) == ~(i - 1 < 2)
    IN  [c1 |-> [charge_hours |-> SortedSeq(RunHours(runs_flt, InC1, OP_CHARGE)),
                 discharge_hours |-> SortedSeq(RunHours(runs_flt, InC1, OP_DISCHARGE))],
         c2 |-> [charge_hours |-> SortedSeq(RunHours(runs_flt, InC2, OP_CHARGE)),
                 discharge_hours |-> SortedSeq(RunHours(runs_flt, InC2, OP_DISCHARGE))]]

\* the rows that build_daily_cycles_masks appends to runs_debug for one date
RunsDebugOfDay(ops, merge_threshold_minutes, wrap_across_midnight) ==
    LET runs_pre == _hour_runs_from_ops(ops, wrap_across_midnight)
        Filtered(i) == Len(runs_pre[i].hours) * 60 < merge_threshold_minutes
        kept == Cardinality({i \in 1..Len(runs_pre) : ~Filtered(i)})
        hrs(i) == SeqSet(runs_pre[i].hours)
    IN  [i \in 1..Len(runs_pre) |->
           [seq |-> i - 1,
            kind |-> runs_pre[i].kind,
            start_hour |-> CHOOSE h \in hrs(i) : \A g \in hrs(i) : h <= g,
            end_hour |-> (CHOOSE h \in hrs(i) : \A g \in hrs(i) : h >= g) + 1,
            length_hours |-> Len(runs_pre[i].hours),
            filtered_by_threshold |-> Filtered(i),
            merged_to |-> IF ~Filtered(i) /\ i - 1 < kept
                          THEN (IF i - 1 < 2 THEN "c1" ELSE "c2")
                          ELSE NoKind]]

build_daily_cycles_masks(ops_by_date, merge_threshold_minutes, wrap_across_midnight) ==
    [d \in DOMAIN ops_by_date |->
        MasksOfDay(ops_by_date[d], merge_threshold_minutes, wrap_across_midnight)]

-----------------------------------------------------------------------------
(* Window-Average Cycle Calculator: compute_window_avg_days_with_debug.    *)

DateLe(a, b) == a[1] < b[1] \/ (a[1] = b[1] /\ a[2] <= b[2])

RECURSIVE SortedDates(_)
SortedDates(S) ==
    IF S = {} THEN <<>>
    ELSE LET m == CHOOSE x \in S : \A y \in S : DateLe(x, y)
         IN  <<m>> \o SortedDates(S \ {m})

LoadsOf(sel) == [i \in 1..Len(sel) |-> sel[i].load_kw]

\* a ratio that is not cut at 1.0
FullRatioUncapped(e_grid, cap) == IF RPos(cap) THEN RDiv(e_grid, cap) ELSE Zero

\* a ratio with the division turned around
FullRatioInverted(e_grid, cap) ==
    RMin(IF RPos(cap) /\ RPos(e_grid) THEN RDiv(cap, e_grid) ELSE Zero, One)

\* min(e / cap if cap > 0 else 0.0, 1.0)
FullRatio(e_grid, cap) == RMin(IF RPos(cap) THEN RDiv(e_grid, cap) ELSE Zero, One)

_window_metrics(day_sub, hour_list, limit_kw, is_charge, cfg, formula) ==
    LET cap == OrDefault(cfg.capacity_kwh, Zero)
        eta == OrDefault(cfg.single_side_efficiency, R(9, 10))
        dod == OrDefault(cfg.depth_of_discharge, One)
        reserve_ch == OrDefault(cfg.reserve_charge_kw, Zero)
        reserve_dis == OrDefault(cfg.reserve_discharge_kw, Zero)
        sel == SelectSeq(day_sub, LAMBDA p : p.hour \in SeqSet(hour_list))
        points == Len(sel)
        avg_load == RDiv(SumSeq(LoadsOf(sel)), R(points, 1))
        hours == RMul(R(points, 1), R(1, 4))
        allow == RMax(Zero, IF is_charge THEN RSub(RSub(limit_kw, reserve_ch), avg_load)
                            ELSE RSub(avg_load, reserve_dis))
        base_kwh == RMul(allow, hours)
        e_grid_physics == IF is_charge THEN RDiv(RMul(base_kwh, dod), MaxEps(eta, E9))
                          ELSE RMul(RMul(base_kwh, dod), eta)
        e_grid_sample == IF is_charge THEN RMul(RDiv(base_kwh, MaxEps(dod, E9)), eta)
                         ELSE RDiv(RDiv(base_kwh, MaxEps(dod, E9)), MaxEps(eta, E9))
        full_ratio_physics == FullRatio(e_grid_physics, cap)
        full_ratio_sample == FullRatio(e_grid_sample, cap)
        allow_series == [i \in 1..points |->
                           RMul(RMax(Zero, IF is_charge
                                           THEN RSub(RSub(limit_kw, reserve_ch), sel[i].load_kw)
                                           ELSE RSub(sel[i].load_kw, reserve_dis)),
                                R(1, 4))]
        base_step15 == SumSeq(allow_series)
        e_grid_physics_step15 == IF is_charge
                                 THEN RMul(base_step15, RDiv(dod, MaxEps(eta, E9)))
                                 ELSE RMul(base_step15, RMul(dod, eta))
        e_grid_sample_step15 == IF is_charge
                                THEN RMul(base_step15, RDiv(eta, MaxEps(dod, E9)))
                                ELSE RMul(base_step15, RDiv(One, MaxEps(RMul(dod, eta), E9)))
    IN  IF points = 0
        THEN [points |-> 0, base_kwh |-> Zero, e_grid_kwh |-> Zero, full_ratio |-> Zero,
              full_ratio_physics |-> None, full_ratio_sample |-> None,
              base_kwh_step15 |-> Zero, full_ratio_step15 |-> Zero,
              full_ratio_physics_step15 |-> None, full_ratio_sample_step15 |-> None]
        ELSE [points |-> points, base_kwh |-> base_kwh,
              e_grid_kwh |-> IF formula = "physics" THEN e_grid_physics ELSE e_grid_sample,
              full_ratio |-> IF formula = "physics" THEN full_ratio_physics
                             ELSE full_ratio_sample,
              full_ratio_physics |-> full_ratio_physics,
              full_ratio_sample |-> full_ratio_sample,
              base_kwh_step15 |-> base_step15, full_ratio_step15 |-> None,
              full_ratio_physics_step15 |-> FullRatio(e_grid_physics_step15, cap),
              full_ratio_sample_step15 |-> FullRatio(e_grid_sample_step15, cap)]

DaySub(series, date) == SelectSeq(series, LAMBDA p : p.date = date)

\* the four debug rows of one date: c1 charge, c1 discharge, c2 charge, c2 discharge
DebugRowsOfDay(series, date, masks, cfg, li, formula) ==
    LET limit_kw == _day_limit_kw(li, YearMonth(date))
        day_sub == DaySub(series, date)
        sides == <<<<"c1", OP_CHARGE, masks.c1.charge_hours>>,
                   <<"c1", OP_DISCHARGE, masks.c1.discharge_hours>>,
                   <<"c2", OP_CHARGE, masks.c2.charge_hours>>,
                   <<"c2", OP_DISCHARGE, masks.c2.discharge_hours>>>>
    IN  [k \in 1..4 |->
           [date |-> date, window |-> sides[k][1], kind |-> sides[k][2],
            hour_list |-> sides[k][3], limit_kw |-> limit_kw,
            met |-> _window_metrics(day_sub, sides[k][3], limit_kw,
                                    sides[k][2] = OP_CHARGE, cfg, formula)]]

\* a day entry that counts the charge sides only
DayEntryChargeOnly(series, date, rows) ==
    LET day_sub == DaySub(series, date)
    IN  [date |-> date,
         cycles |-> RAdd(rows[1].met.full_ratio, rows[3].met.full_ratio),
         is_valid |-> Len(day_sub) > 0
                      /\ \E i \in 1..Len(day_sub) : RPos(day_sub[i].load_kw),
         point_count |-> Len(day_sub)]

DayEntry(series, date, rows) ==
    LET day_sub == DaySub(series, date)
        c1_cycles == RMin(rows[1].met.full_ratio, rows[2].met.full_ratio)
        c2_cycles == RMin(rows[3].met.full_ratio, rows[4].met.full_ratio)
    IN  [date |-> date,
         cycles |-> RAdd(c1_cycles, c2_cycles),
         is_valid |-> Len(day_sub) > 0
                      /\ \E i \in 1..Len(day_sub) : RPos(day_sub[i].load_kw),
         point_count |-> Len(day_sub)]

RECURSIVE Flatten(_)
Flatten(ss) == IF ss = <<>> THEN <<>> ELSE Head(ss) \o Flatten(Tail(ss))

\* <<days, debug_rows>> of the dates in order, rows[i] being the rows of dates[i]
DaysAndRows(series, dates, rows) ==
    <<[i \in 1..Len(dates) |-> DayEntry(series, dates[i], rows[i])], Flatten(rows)>>

\* returns <<days, debug_rows>>
compute_window_avg_days_with_debug(series, masks_by_date, cfg, li, formula) ==
    IF series = <<>> THEN <<<<>>, <<>>>>
    ELSE DaysAndRows(series, SortedDates(DOMAIN masks_by_date),
                     [i \in 1..Cardinality(DOMAIN masks_by_date) |->
                        DebugRowsOfDay(series, SortedDates(DOMAIN masks_by_date)[i],
                                       masks_by_date[SortedDates(DOMAIN masks_by_date)[i]],
                                       cfg, li, formula)])

-----------------------------------------------------------------------------
(* 15-Minute Power/SOC Simulator: build_step15_power_series.               *)

\* the configuration with the usable band taken as the effective DOD
SimCfgBandOnly(cfg) ==
    LET cap == OrDefault(cfg.capacity_kwh, Zero)
        c_rate == OrDefault(cfg.c_rate, R(1, 2))
        soc_min == OrDefault(cfg.soc_min, R(1, 20))
        soc_max == OrDefault(cfg.soc_max, R(19, 20))
    IN  [cap |-> cap,
         c_rate |-> c_rate,
         p_max |-> IF RPos(cap) /\ RPos(c_rate) THEN RMul(cap, c_rate) ELSE Zero,
         eta |-> OrDefault(cfg.single_side_efficiency, R(9, 10)),
         soc_min |-> soc_min,
         soc_max |-> soc_max,
         effective_dod |-> RMax(Zero, RSub(soc_max, soc_min)),
         reserve_ch |-> OrDefault(cfg.reserve_charge_kw, Zero),
         reserve_dis |-> OrDefault(cfg.reserve_discharge_kw, Zero)]

\* the local variables read from storage_cfg
SimCfg(cfg) ==
    LET cap == OrDefault(cfg.capacity_kwh, Zero)
        c_rate == OrDefault(cfg.c_rate, R(1, 2))
        soc_min == OrDefault(cfg.soc_min, R(1, 20))
        soc_max == OrDefault(cfg.soc_max, R(19, 20))
        dod_cfg == OrDefault(cfg.depth_of_discharge, One)
    IN  [cap |-> cap,
         c_rate |-> c_rate,
         p_max |-> IF RPos(cap) /\ RPos(c_rate) THEN RMul(cap, c_rate) ELSE Zero,
         eta |-> OrDefault(cfg.single_side_efficiency, R(9, 10)),
         soc_min |-> soc_min,
         soc_max |-> soc_max,
         effective_dod |-> RMax(Zero, RMin(dod_cfg, RSub(soc_max, soc_min))),
         reserve_ch |-> OrDefault(cfg.reserve_charge_kw, Zero),
         reserve_dis |-> OrDefault(cfg.reserve_discharge_kw, Zero)]

MainFormula(formula) == IF formula \in {"physics", "sample"} THEN formula ELSE "physics"

\* full_ratio_<main>_step15, else full_ratio_<main>, else 1.0
RowFullMain(row, main_formula) ==
    LET step == IF main_formula = "physics" THEN row.met.full_ratio_physics_step15
                ELSE row.met.full_ratio_sample_step15
        plain == IF main_formula = "physics" THEN row.met.full_ratio_physics
                 ELSE row.met.full_ratio_sample
    IN  IF step # None THEN step ELSE IF plain # None THEN plain ELSE One

\* window_targets as the list of its items in insertion order
RECURSIVE BuildTargets(_, _, _)
BuildTargets(rows, main_formula, acc) ==
    IF rows = <<>> THEN acc
    ELSE LET row == Head(rows)
             full_main == RowFullMain(row, main_formula)
             hours_set == SeqSet(row.hour_list)
             at == {i \in 1..Len(acc) : acc[i].date = row.date /\ acc[i].window = row.window}
             acc1 == IF at = {}
                     THEN Append(acc, [date |-> row.date, window |-> row.window,
                                       charge_hours |-> {}, discharge_hours |-> {},
                                       full_ratio_main |-> full_main])
                     ELSE acc
             i == CHOOSE j \in 1..Len(acc1) :
                      acc1[j].date = row.date /\ acc1[j].window = row.window
             tgt == acc1[i]
             tgt1 == [tgt EXCEPT
                        !.full_ratio_main = RMin(tgt.full_ratio_main, full_main),
                        !.charge_hours = IF row.kind = OP_CHARGE THEN @ \cup hours_set ELSE @,
                        !.discharge_hours =
                            IF row.kind = OP_DISCHARGE THEN @ \cup hours_set ELSE @]
         IN  IF row.window \notin {"c1", "c2"}
             THEN BuildTargets(Tail(rows), main_formula, acc)
             ELSE BuildTargets(Tail(rows), main_formula, [acc1 EXCEPT ![i] = tgt1])

NoKey == <<>>

\* a window lookup that forgets the date: the first window of any day
WindowKeyOfAnyDay(targets, date, h, op) ==
    LET cand == {i \in 1..Len(targets) :
                   \/ (op = OP_CHARGE /\ h \in targets[i].charge_hours)
                   \/ (op = OP_DISCHARGE /\ h \in targets[i].discharge_hours)}
    IN  IF cand = {} THEN NoKey
        ELSE LET i == CHOOSE j \in cand : \A k \in cand : j <= k
             IN  <<targets[i].date, targets[i].window>>

\* the first (date, window) whose hour set of the op's kind holds the hour
_window_key(targets, date, h, op) ==
    LET cand == {i \in 1..Len(targets) :
                   /\ targets[i].date = date
                   /\ \/ (op = OP_CHARGE /\ h \in targets[i].charge_hours)
                      \/ (op = OP_DISCHARGE /\ h \in targets[i].discharge_hours)}
    IN  IF cand = {} THEN NoKey
        ELSE LET i == CHOOSE j \in cand : \A k \in cand : j <= k
             IN  <<targets[i].date, targets[i].window>>

TargetOf(targets, key) ==
    LET i == CHOOSE j \in 1..Len(targets) : <<targets[j].date, targets[j].window>> = key
    IN  targets[i]

_op_for_ts(ops_by_date, date, h) ==
    IF date \in DOMAIN ops_by_date /\ h < Len(ops_by_date[date])
    THEN ops_by_date[date][h + 1] ELSE NoKind

InitialSoc(cfg) ==
    LET c == SimCfg(cfg)
        initial_soc == OrDefault(cfg.initial_soc, c.soc_min)
    IN  RMax(c.soc_min, RMin(c.soc_max, initial_soc))

\* p_batt without the floor at zero of the available power
BattPowerUnfloored(op, load_kw, limit_kw, c) ==
    IF op = OP_CHARGE
    THEN LET p_batt_raw == RSub(RSub(limit_kw, c.reserve_ch), load_kw)
         IN  IF RPos(c.p_max) THEN RMin(p_batt_raw, c.p_max) ELSE p_batt_raw
    ELSE IF op = OP_DISCHARGE
    THEN LET p_batt_raw == RSub(load_kw, c.reserve_dis)
         IN  IF RPos(c.p_max) THEN RNeg(RMin(p_batt_raw, c.p_max)) ELSE RNeg(p_batt_raw)
    ELSE Zero

\* p_batt of one point before any clipping
BattPower(op, load_kw, limit_kw, c) ==
    IF op = OP_CHARGE
    THEN LET p_batt_raw == RMax(RSub(RSub(limit_kw, c.reserve_ch), load_kw), Zero)
         IN  IF RPos(c.p_max) THEN RMin(p_batt_raw, c.p_max) ELSE p_batt_raw
    ELSE IF op = OP_DISCHARGE
    THEN LET p_batt_raw == RMax(RSub(load_kw, c.reserve_dis), Zero)
         IN  IF RPos(c.p_max) THEN RNeg(RMin(p_batt_raw, c.p_max)) ELSE RNeg(p_batt_raw)
    ELSE Zero

\* both formulas' grid-side energies and grid-effect powers of a battery power
GridEnergies(p_batt, c) ==
    LET charging == RPos(p_batt)
        discharging == RLt(p_batt, Zero)
        e_batt == RMul(RAbs(p_batt), dt_hours)
        e_in_phys == IF charging
                     THEN RMul(e_batt, RDiv(c.effective_dod, MaxEps(c.eta, E9))) ELSE Zero
        e_in_sample == IF charging
                       THEN RMul(e_batt, RDiv(c.eta, MaxEps(c.effective_dod, E9))) ELSE Zero
        e_out_phys == IF discharging
                      THEN RMul(e_batt, RMul(c.effective_dod, c.eta)) ELSE Zero
        e_out_sample == IF discharging
                        THEN RMul(e_batt,
                                  RDiv(One, MaxEps(RMul(c.effective_dod, c.eta), E9)))
                        ELSE Zero
    IN  [p_batt |-> p_batt,
         e_in_phys |-> e_in_phys, e_out_phys |-> e_out_phys,
         e_in_sample |-> e_in_sample, e_out_sample |-> e_out_sample,
         p_grid_phys |-> RDiv(RSub(e_in_phys, e_out_phys), dt_hours),
         p_grid_sample |-> RDiv(RSub(e_in_sample, e_out_sample), dt_hours)]

\* a scaling that forgets the sample formula's grid-effect power
ScaleAllButGridSample(pe, f) ==
    [p_batt |-> RMul(pe.p_batt, f),
     e_in_phys |-> RMul(pe.e_in_phys, f), e_out_phys |-> RMul(pe.e_out_phys, f),
     e_in_sample |-> RMul(pe.e_in_sample, f), e_out_sample |-> RMul(pe.e_out_sample, f),
     p_grid_phys |-> RMul(pe.p_grid_phys, f), p_grid_sample |-> pe.p_grid_sample]

\* the seven battery quantities multiplied by one factor
ScaleAll(pe, f) ==
    [p_batt |-> RMul(pe.p_batt, f),
     e_in_phys |-> RMul(pe.e_in_phys, f), e_out_phys |-> RMul(pe.e_out_phys, f),
     e_in_sample |-> RMul(pe.e_in_sample, f), e_out_sample |-> RMul(pe.e_out_sample, f),
     p_grid_phys |-> RMul(pe.p_grid_phys, f), p_grid_sample |-> RMul(pe.p_grid_sample, f)]

\* a transformer clip that looks at the physics formula's grid power only
TransformerClipPhysicsOnly(pe, load_kw, limit_kw, limit_mode) ==
    LET max_p_grid_charge == RMax(pe.p_grid_phys, Zero)
        allowed_extra == RMax(RSub(limit_kw, load_kw), Zero)
        scale_cap == IF ~RPos(allowed_extra) THEN Zero
                     ELSE RDiv(allowed_extra, max_p_grid_charge)
    IN  IF /\ limit_mode = "transformer_capacity"
           /\ limit_kw # Zero
           /\ RLt(load_kw, limit_kw)
           /\ RPos(max_p_grid_charge)
           /\ GtTol(RAdd(load_kw, max_p_grid_charge), limit_kw, E6)
           /\ RLt(scale_cap, One)
        THEN ScaleAll(pe, scale_cap)
        ELSE pe

\* transformer headroom: the storage never pushes load + charge above the limit
TransformerClip(pe, load_kw, limit_kw, limit_mode) ==
    LET max_p_grid_charge == RMax(RMax(pe.p_grid_phys, pe.p_grid_sample), Zero)
        allowed_extra == RMax(RSub(limit_kw, load_kw), Zero)
        scale_cap == IF ~RPos(allowed_extra) THEN Zero
                     ELSE RDiv(allowed_extra, max_p_grid_charge)
    IN  IF /\ limit_mode = "transformer_capacity"
           /\ limit_kw # Zero
           /\ RLt(load_kw, limit_kw)
           /\ RPos(max_p_grid_charge)
           /\ GtTol(RAdd(load_kw, max_p_grid_charge), limit_kw, E6)
           /\ RLt(scale_cap, One)
        THEN ScaleAll(pe, scale_cap)
        ELSE pe

\* a feed-in clip that looks at the physics formula's grid power only
NoReverseClipPhysicsOnly(pe, load_kw, c) ==
    LET max_discharge == RMax(RNeg(pe.p_grid_phys), Zero)
        allowed_discharge == RMax(RSub(load_kw, c.reserve_dis), Zero)
        scale_dis == IF RPos(allowed_discharge)
                     THEN RDiv(allowed_discharge, max_discharge) ELSE Zero
    IN  IF /\ RPos(load_kw)
           /\ RPos(max_discharge)
           /\ GtTol(max_discharge, allowed_discharge, E6)
           /\ RLt(scale_dis, One)
        THEN ScaleAll(pe, scale_dis)
        ELSE pe

\* no reverse feed-in: discharge never exceeds load - reserve_dis
NoReverseClip(pe, load_kw, c) ==
    LET max_discharge == RMax(RMax(RNeg(pe.p_grid_phys), RNeg(pe.p_grid_sample)), Zero)
        allowed_discharge == RMax(RSub(load_kw, c.reserve_dis), Zero)
        scale_dis == IF RPos(allowed_discharge)
                     THEN RDiv(allowed_discharge, max_discharge) ELSE Zero
    IN  IF /\ RPos(load_kw)
           /\ RPos(max_discharge)
           /\ GtTol(max_discharge, allowed_discharge, E6)
           /\ RLt(scale_dis, One)
        THEN ScaleAll(pe, scale_dis)
        ELSE pe

MainIn(pe, main_formula) == IF main_formula = "physics" THEN pe.e_in_phys ELSE pe.e_in_sample
MainOut(pe, main_formula) ==
    IF main_formula = "physics" THEN pe.e_out_phys ELSE pe.e_out_sample

\* the window's state, created with its targets at the first point of the window
WindowStateOf(wstate, targets, key, c) ==
    IF key \in DOMAIN wstate THEN wstate[key]
    ELSE LET full_main == OrDefault(TargetOf(targets, key).full_ratio_main, One)
             usable_batt_dod == RMul(RMul(c.cap, full_main), c.effective_dod)
         IN  [charged |-> Zero, discharged |-> Zero,
              charge_target |-> RDiv(usable_batt_dod, MaxEps(c.eta, E9)),
              discharge_target |-> RMul(usable_batt_dod, c.eta)]

\* a window clamp that compares each point with the whole target, not the room left
WindowClampIgnoringTotals(pe, op, st, main_formula) ==
    LET allowed_ch == st.charge_target
        allowed_dis == st.discharge_target
        e_in_main == MainIn(pe, main_formula)
        e_out_main == MainOut(pe, main_formula)
    IN  IF op = OP_CHARGE /\ st.charge_target # Zero
        THEN IF GtTol(e_in_main, allowed_ch, E9)
             THEN ScaleAll(pe, RDiv(allowed_ch, MaxEps(e_in_main, E9)))
             ELSE pe
        ELSE IF op = OP_DISCHARGE /\ st.discharge_target # Zero
        THEN IF GtTol(e_out_main, allowed_dis, E9)
             THEN ScaleAll(pe, RDiv(allowed_dis, MaxEps(e_out_main, E9)))
             ELSE pe
        ELSE pe

\* per-window clamp of one point against the remaining room of its window
WindowClamp(pe, op, st, main_formula) ==
    LET allowed_ch == RMax(RSub(st.charge_target, st.charged), Zero)
        allowed_dis == RMax(RSub(st.discharge_target, st.discharged), Zero)
        e_in_main == MainIn(pe, main_formula)
        e_out_main == MainOut(pe, main_formula)
    IN  IF op = OP_CHARGE /\ st.charge_target # Zero
        THEN IF GtTol(e_in_main, allowed_ch, E9)
             THEN ScaleAll(pe, RDiv(allowed_ch, MaxEps(e_in_main, E9)))
             ELSE pe
        ELSE IF op = OP_DISCHARGE /\ st.discharge_target # Zero
        THEN IF GtTol(e_out_main, allowed_dis, E9)
             THEN ScaleAll(pe, RDiv(allowed_dis, MaxEps(e_out_main, E9)))
             ELSE pe
        ELSE pe

\* an SOC update without the clamp into the band
SocAfterUnclamped(soc, p_batt, c) ==
    IF RPos(c.cap) THEN RAdd(soc, RDiv(RMul(p_batt, dt_hours), c.cap)) ELSE soc

SocAfter(soc, p_batt, c) ==
    IF RPos(c.cap)
    THEN RMax(c.soc_min, RMin(c.soc_max, RAdd(soc, RDiv(RMul(p_batt, dt_hours), c.cap))))
    ELSE soc

NoState == [charged |-> Zero, discharged |-> Zero,
            charge_target |-> Zero, discharge_target |-> Zero]

\* the window state after the point's main-formula energies are added
StateAfter(st, final, main_formula) ==
    [st EXCEPT !.charged = RAdd(@, MainIn(final, main_formula)),
               !.discharged = RAdd(@, MainOut(final, main_formula))]

\* the record appended for one point
PointRecord(pt, price, op, limit_kw, c, final, soc1, keyed, st1) ==
    [date |-> pt.date, hour |-> pt.hour, load_kw |-> pt.load_kw, price |-> price,
     op |-> IF op = NoKind THEN OP_STANDBY ELSE op,
     limit_kw |-> limit_kw, p_max_kw |-> c.p_max,
     p_batt_kw |-> final.p_batt, soc |-> soc1,
     e_in_physics_kwh |-> final.e_in_phys, e_out_physics_kwh |-> final.e_out_phys,
     e_in_sample_kwh |-> final.e_in_sample, e_out_sample_kwh |-> final.e_out_sample,
     p_grid_effect_physics_kw |-> final.p_grid_phys,
     p_grid_effect_sample_kw |-> final.p_grid_sample,
     cum_charge_grid_main |-> IF keyed THEN st1.charged ELSE None,
     cum_discharge_grid_main |-> IF keyed THEN st1.discharged ELSE None,
     charge_target_grid_main |-> IF keyed THEN st1.charge_target ELSE None,
     discharge_target_grid_main |-> IF keyed THEN st1.discharge_target ELSE None]

-----------------------------------------------------------------------------
(* Profit Aggregator: compute_profit_summary_step15 (sequential strategy). *)

EIn(r, formula) == IF formula = "physics" THEN r.e_in_physics_kwh ELSE r.e_in_sample_kwh
EOut(r, formula) == IF formula = "physics" THEN r.e_out_physics_kwh ELSE r.e_out_sample_kwh

\* price.fillna(0.0)
PriceOrZero(price) == IF price = None THEN Zero ELSE price

ProfitPerKwh(profit_v, e_out) == IF RPos(e_out) THEN RDiv(profit_v, e_out) ELSE Zero

\* the metrics of one day's rows under one formula
DayMetrics(day_rows, formula) ==
    LET e_in == SumSeq([i \in 1..Len(day_rows) |-> EIn(day_rows[i], formula)])
        e_out == SumSeq([i \in 1..Len(day_rows) |-> EOut(day_rows[i], formula)])
        cost == SumSeq([i \in 1..Len(day_rows) |->
                          RMul(EIn(day_rows[i], formula), PriceOrZero(day_rows[i].price))])
        revenue == SumSeq([i \in 1..Len(day_rows) |->
                             RMul(EOut(day_rows[i], formula), PriceOrZero(day_rows[i].price))])
    IN  [revenue |-> revenue, cost |-> cost, profit |-> RSub(revenue, cost),
         discharge_energy_kwh |-> e_out, charge_energy_kwh |-> e_in,
         profit_per_kwh |-> ProfitPerKwh(RSub(revenue, cost), e_out)]

\* a bucket that holds the metrics of the last day only
RollUpOfLastDay(ms) == ms[Len(ms)]

\* month and year buckets: the day metrics added up key by key
RollUp(ms) ==
    LET Sum(F(_)) == SumSeq([i \in 1..Len(ms) |-> F(ms[i])])
        revenue == Sum(LAMBDA m : m.revenue)
        cost == Sum(LAMBDA m : m.cost)
        profit_v == Sum(LAMBDA m : m.profit)
        e_out == Sum(LAMBDA m : m.discharge_energy_kwh)
        e_in == Sum(LAMBDA m : m.charge_energy_kwh)
    IN  [revenue |-> revenue, cost |-> cost, profit |-> profit_v,
         discharge_energy_kwh |-> e_out, charge_energy_kwh |-> e_in,
         profit_per_kwh |-> ProfitPerKwh(profit_v, e_out)]

WithMain(entry, formula) ==
    [physics |-> entry.physics, sample |-> entry.sample,
     main |-> IF MainFormula(formula) = "physics" THEN entry.physics ELSE entry.sample]

compute_profit_summary_step15(rows, formula) ==
    LET dates == SortedDates({rows[i].date : i \in 1..Len(rows)})
        day_metrics == [f \in {"physics", "sample"} |->
                          [d \in SeqSet(dates) |->
                             DayMetrics(SelectSeq(rows, LAMBDA r : r.date = d), f)]]
        months == {YearMonth(dates[i]) : i \in 1..Len(dates)}
        DatesOf(ym) == SelectSeq(dates, LAMBDA d : YearMonth(d) = ym)
        MonthOf(ym, f) == RollUp([i \in 1..Len(DatesOf(ym)) |-> day_metrics[f][DatesOf(ym)[i]]])
        YearOf(f) == RollUp([i \in 1..Len(dates) |-> day_metrics[f][dates[i]]])
    IN  IF rows = <<>> THEN [days |-> <<>>, months |-> <<>>, year |-> None]
        ELSE [days |-> [d \in SeqSet(dates) |->
                          WithMain([physics |-> day_metrics["physics"][d],
                                    sample |-> day_metrics["sample"][d]], formula)],
              months |-> [ym \in months |->
                            WithMain([physics |-> MonthOf(ym, "physics"),
                                      sample |-> MonthOf(ym, "sample")], formula)],
              year |-> WithMain([physics |-> YearOf("physics"),
                                 sample |-> YearOf("sample")], formula)]

-----------------------------------------------------------------------------
(* Inputs.                                                                 *)

NumPoints == 3

Date1 == <<1, 1>>

\* what one hour of the day can be: its op label and the load of its point
HourInputs ==
    {[op |-> OP_CHARGE, load_kw |-> R(0, 1)], [op |-> OP_CHARGE, load_kw |-> R(180, 1)],
     [op |-> OP_DISCHARGE, load_kw |-> R(0, 1)], [op |-> OP_DISCHARGE, load_kw |-> R(180, 1)],
     [op |-> OP_STANDBY, load_kw |-> R(0, 1)]}

\* the hours that have a point: 0, 1, 3, 4, 6, ... (two hours on, one hour off)
HourOfPoint(i) == (i - 1) + ((i - 1) \div 2)

\* a schedule that is standby at the hours the series has no point for
OpsOfDay(f) ==
    [h \in 1..HoursPerDay |->
        IF \E i \in 1..NumPoints : HourOfPoint(i) = h - 1
        THEN f[CHOOSE i \in 1..NumPoints : HourOfPoint(i) = h - 1].op
        ELSE OP_STANDBY]

\* the prices of the hours: 0.3, 1.2, missing, 0.3, ...
PriceOfHour(h) == IF h % 3 = 0 THEN R(3, 10) ELSE IF h % 3 = 1 THEN R(6, 5) ELSE None

BaseStorage ==
    [capacity_kwh |-> R(100, 1), c_rate |-> R(1, 1), single_side_efficiency |-> R(1, 2),
     depth_of_discharge |-> R(1, 5), soc_min |-> None, soc_max |-> None,
     initial_soc |-> None, reserve_charge_kw |-> Zero, reserve_discharge_kw |-> Zero,
     merge_threshold_minutes |-> 30]

StorageConfigs ==
    {BaseStorage,
     [BaseStorage EXCEPT !.capacity_kwh = Zero],
     [BaseStorage EXCEPT !.depth_of_discharge = None, !.soc_min = R(2, 5),
                         !.soc_max = R(3, 5), !.initial_soc = One],
     [BaseStorage EXCEPT !.c_rate = Zero, !.reserve_charge_kw = R(10, 1),
                         !.reserve_discharge_kw = R(20, 1)]}

Meterings ==
    {[mode |-> "monthly_demand_max", kva |-> None, pf |-> None],
     [mode |-> "transformer_capacity", kva |-> R(250, 1), pf |-> R(4, 5)]}

Formulas == {"physics", "sample"}

-----------------------------------------------------------------------------
(* The request pipeline of the cycles endpoint.                            *)

NoTrace == [win_key |-> NoKey]

Init ==
    /\ pc = "limit"
    /\ storage_cfg \in StorageConfigs
    /\ energy_formula \in Formulas
    /\ metering \in Meterings
    /\ \E f \in [1..NumPoints -> HourInputs] :
          /\ series_15m = [i \in 1..NumPoints |->
                             [date |-> Date1, hour |-> HourOfPoint(i),
                              load_kw |-> f[i].load_kw]]
          /\ daily_ops = (Date1 :> OpsOfDay(f))
    /\ price_series = [i \in 1..NumPoints |-> PriceOfHour(HourOfPoint(i))]
    /\ limit_info = None
    /\ daily_masks = None
    /\ days = None
    /\ window_debug = None
    /\ window_targets = None
    /\ window_state = <<>>
    /\ current_soc = None
    /\ idx = 0
    /\ records = <<>>
    /\ trace = NoTrace
    /\ profit = None
    /\ prev_run = None
    /\ stored_snapshot = None
    /\ call = None

ComputeLimitInfo ==
    /\ pc = "limit"
    /\ limit_info' = compute_limit_info(series_15m, metering.mode, metering.kva, metering.pf)
    /\ pc' = "masks"
    /\ UNCHANGED <<storage_cfg, energy_formula, metering, series_15m, daily_ops,
                   price_series, daily_masks, days, window_debug, window_targets,
                   window_state, current_soc, idx, records, trace, profit, prev_run, call,
                   stored_snapshot>>

BuildDailyCyclesMasks ==
    /\ pc = "masks"
    /\ daily_masks' = build_daily_cycles_masks(daily_ops,
                                               storage_cfg.merge_threshold_minutes, TRUE)
    /\ pc' = "window"
    /\ UNCHANGED <<storage_cfg, energy_formula, metering, series_15m, daily_ops,
                   price_series, limit_info, days, window_debug, window_targets,
                   window_state, current_soc, idx, records, trace, profit, prev_run, call,
                   stored_snapshot>>

ComputeWindowAvg ==
    /\ pc = "window"
    /\ \E res \in {compute_window_avg_days_with_debug(series_15m, daily_masks, storage_cfg,
                                                        limit_info, energy_formula)} :
          days' = res[1] /\ window_debug' = res[2]
    /\ pc' = "sim_begin"
    /\ UNCHANGED <<storage_cfg, energy_formula, metering, series_15m, daily_ops,
                   price_series, limit_info, daily_masks, window_targets,
                   window_state, current_soc, idx, records, trace, profit, prev_run, call,
                   stored_snapshot>>

\* build_step15_power_series up to its loop
SimBegin ==
    /\ pc = "sim_begin"
    /\ window_targets' = BuildTargets(window_debug, MainFormula(energy_formula), <<>>)
    /\ window_state' = <<>>
    /\ current_soc' = InitialSoc(storage_cfg)
    /\ idx' = 1
    /\ records' = <<>>
    /\ pc' = "sim"
    /\ UNCHANGED <<storage_cfg, energy_formula, metering, series_15m, daily_ops,
                   price_series, limit_info, daily_masks, days, window_debug, trace,
                   profit, prev_run, call,
                   stored_snapshot>>

\* one iteration of the loop of build_step15_power_series
SimStep ==
    /\ pc = "sim"
    /\ idx <= Len(series_15m)
    /\ \E pt \in {series_15m[idx]}, c \in {SimCfg(storage_cfg)},
          main_formula \in {MainFormula(energy_formula)} :
       \E op \in {_op_for_ts(daily_ops, pt.date, pt.hour)},
          limit_kw \in {_day_limit_kw(limit_info, YearMonth(pt.date))} :
       \E win_key \in {_window_key(window_targets, pt.date, pt.hour, op)},
          raw \in {GridEnergies(BattPower(op, pt.load_kw, limit_kw, c), c)} :
       \E capped \in {TransformerClip(raw, pt.load_kw, limit_kw, limit_info.limit_mode)},
          keyed \in {win_key # NoKey /\ RPos(c.cap) /\ RPos(c.effective_dod)} :
       \E unfed \in {NoReverseClip(capped, pt.load_kw, c)},
          st \in {IF keyed THEN WindowStateOf(window_state, window_targets, win_key, c)
                  ELSE NoState} :
       \E final \in {IF keyed THEN WindowClamp(unfed, op, st, main_formula) ELSE unfed} :
       \E st1 \in {StateAfter(st, final, main_formula)},
          soc1 \in {SocAfter(current_soc, final.p_batt, c)} :
          /\ records' = Append(records, PointRecord(pt, price_series[idx], op, limit_kw,
                                                    c, final, soc1, keyed, st1))
          /\ window_state' = IF keyed THEN (win_key :> st1) @@ window_state
                              ELSE window_state
          /\ current_soc' = soc1
          /\ trace' = [win_key |-> IF keyed THEN win_key ELSE NoKey,
                        raw |-> raw, capped |-> capped, unfed |-> unfed, final |-> final]
    /\ idx' = idx + 1
    /\ UNCHANGED <<pc, storage_cfg, energy_formula, metering, series_15m, daily_ops,
                   price_series, limit_info, daily_masks, days, window_debug,
                   window_targets, profit, prev_run, call,
                   stored_snapshot>>

ComputeProfitSummary ==
    /\ pc = "sim"
    /\ idx > Len(series_15m)
    /\ profit' = compute_profit_summary_step15(records, energy_formula)
    /\ pc' = "done"
    /\ UNCHANGED <<storage_cfg, energy_formula, metering, series_15m, daily_ops,
                   price_series, limit_info, daily_masks, days, window_debug,
                   window_targets, window_state, current_soc, idx, records, trace,
                   prev_run, call,
                   stored_snapshot>>

Next ==
    \/ ComputeLimitInfo
    \/ BuildDailyCyclesMasks
    \/ ComputeWindowAvg
    \/ SimBegin
    \/ SimStep
    \/ ComputeProfitSummary

Spec == Init /\ [][Next]_vars

-----------------------------------------------------------------------------
(* A second request with another capacity: the calculator is run again on  *)
(* the same series, masks and limits; prev_run keeps the first run.        *)

CapSteps == 3
Capacities == {R(50 * k, 1) : k \in 0..CapSteps}

ChangeCapacity ==
    /\ pc = "sim_begin"
    /\ prev_run = None
    /\ \E cap \in Capacities :
          /\ cap # OrDefault(storage_cfg.capacity_kwh, Zero)
          /\ storage_cfg' = [storage_cfg EXCEPT !.capacity_kwh = cap]
    /\ prev_run' = [cap |-> OrDefault(storage_cfg.capacity_kwh, Zero),
                    window_debug |-> window_debug]
    /\ pc' = "window"
    /\ UNCHANGED <<energy_formula, metering, series_15m, daily_ops, price_series,
                   limit_info, daily_masks, days, window_debug, window_targets,
                   window_state, current_soc, idx, records, trace, profit, call,
                   stored_snapshot>>

NextCap ==
    \/ ComputeLimitInfo
    \/ BuildDailyCyclesMasks
    \/ ComputeWindowAvg
    \/ ChangeCapacity

SpecCap == Init /\ [][NextCap]_vars

-----------------------------------------------------------------------------
(* Properties of the simulator.                                            *)

\* the simulator's local configuration of the request
Cfg == SimCfg(storage_cfg)

\* the record written last; trace holds the intermediate values of its point
LastRecord == records[Len(records)]

SocBefore(i) == IF i = 1 THEN InitialSoc(storage_cfg) ELSE records[i - 1].soc

InBand(soc) == RLe(Cfg.soc_min, soc) /\ RLe(soc, Cfg.soc_max)

\* x <= y + k * 1e-9
LeTolK(x, y, k) == LET r == RSub(x, y) IN r[1] <= ((k * r[2]) \div E9)

\* C1: with soc_min <= soc_max, the initial SOC and the SOC of every record lie
\* in [soc_min, soc_max], whatever the sequence of charge, discharge and
\* standby points.
C1_SocInBand ==
    (current_soc # None /\ RLe(Cfg.soc_min, Cfg.soc_max)) =>
        /\ InBand(InitialSoc(storage_cfg))
        /\ InBand(current_soc)
        /\ \A i \in 1..Len(records) : InBand(records[i].soc)

\* an initial SOC above the band, and a charge point whose unclamped update
\* would leave the band and whose record holds soc_max
C1_Witness ==
    /\ records # <<>>
    /\ RLt(Cfg.soc_min, Cfg.soc_max)
    /\ RGt(OrDefault(storage_cfg.initial_soc, Cfg.soc_min), Cfg.soc_max)
    /\ \E i \in 1..Len(records) :
          /\ RPos(records[i].p_batt_kw)
          /\ RGt(SocAfterUnclamped(SocBefore(i), records[i].p_batt_kw, Cfg), Cfg.soc_max)
          /\ records[i].soc = Cfg.soc_max

\* the window total of the last point's direction, after and before the point
LastTotals ==
    LET st == window_state[trace.win_key]
        mf == MainFormula(energy_formula)
        charge == LastRecord.op = OP_CHARGE
    IN  [target |-> IF charge THEN st.charge_target ELSE st.discharge_target,
         after |-> IF charge THEN st.charged ELSE st.discharged,
         before |-> IF charge THEN RSub(st.charged, MainIn(trace.final, mf))
                    ELSE RSub(st.discharged, MainOut(trace.final, mf)),
         wanted |-> IF charge THEN MainIn(trace.unfed, mf) ELSE MainOut(trace.unfed, mf),
         added |-> IF charge THEN MainIn(trace.final, mf) ELSE MainOut(trace.final, mf)]

\* C2: after every point, every window's running main-formula totals are at
\* most their targets (1e-9 per point); a point that wants more than the room
\* left is scaled so that the total reaches the target exactly, and a point of
\* a window whose total has reached the target adds nothing.
C2_WindowTotalsWithinTargets ==
    /\ \A key \in DOMAIN window_state :
          /\ LeTolK(window_state[key].charged, window_state[key].charge_target,
                    Len(records))
          /\ LeTolK(window_state[key].discharged, window_state[key].discharge_target,
                    Len(records))
    /\ (trace.win_key # NoKey /\ LastRecord.op \in {OP_CHARGE, OP_DISCHARGE}) =>
          LET t == LastTotals
              room == RMax(RSub(t.target, t.before), Zero)
          IN  /\ GtTol(t.wanted, room, E9) => t.after = RMax(t.target, t.before)
              /\ (RGe(t.before, t.target) /\ GtTol(t.wanted, Zero, E9)) => t.added = Zero
              /\ RLe(t.added, t.wanted)

\* a later charge point of a window that is already full: it wanted energy,
\* added none, and the total stands at the target
C2_Witness ==
    /\ trace.win_key # NoKey
    /\ Len(records) >= 2
    /\ LastRecord.op = OP_CHARGE
    /\ RPos(LastTotals.wanted)
    /\ LastTotals.added = Zero
    /\ RPos(LastTotals.target)
    /\ LastTotals.after = LastTotals.target
    /\ LastTotals.before = LastTotals.target

\* the larger of the two formulas' charging grid powers
MaxGridCharge(pe) == RMax(RMax(pe.p_grid_phys, pe.p_grid_sample), Zero)

\* b is a with every one of its seven quantities multiplied by one factor of [0, 1]
IsScaled(a, b) ==
    LET f == IF a.p_batt = Zero THEN One ELSE RDiv(b.p_batt, a.p_batt)
    IN  /\ RLe(Zero, f) /\ RLe(f, One)
        /\ \A k \in DOMAIN a : b[k] = RMul(a[k], f)

\* C3: in transformer_capacity mode, a point with load below the limit never
\* has load + charging grid-effect power above the limit (1e-6) under either
\* formula; when the unclipped charge would exceed it, all quantities are
\* scaled by one factor so that load + the larger charge grid power is the
\* limit exactly; the recorded load is the input load.
C3_TransformerHeadroom ==
    /\ \A i \in 1..Len(records) : records[i].load_kw = series_15m[i].load_kw
    /\ (limit_info # None /\ limit_info.limit_mode = "transformer_capacity") =>
          /\ \A i \in 1..Len(records) :
                LET r == records[i]
                IN  RLt(r.load_kw, r.limit_kw) =>
                       /\ LeTol(RAdd(r.load_kw, r.p_grid_effect_physics_kw), r.limit_kw, E6)
                       /\ LeTol(RAdd(r.load_kw, r.p_grid_effect_sample_kw), r.limit_kw, E6)
          /\ records # <<>> =>
                LET r == LastRecord
                IN  (/\ RLt(r.load_kw, r.limit_kw)
                     /\ GtTol(RAdd(r.load_kw, MaxGridCharge(trace.raw)), r.limit_kw, E6)) =>
                       /\ RAdd(r.load_kw, MaxGridCharge(trace.capped)) = r.limit_kw
                       /\ IsScaled(trace.raw, trace.capped)

\* Scenario E: load 180, limit 200, the unclipped charge reaches 230 and the
\* clipped one 200
C3_Witness ==
    /\ records # <<>>
    /\ limit_info.limit_mode = "transformer_capacity"
    /\ LastRecord.load_kw = R(180, 1)
    /\ LastRecord.limit_kw = R(200, 1)
    /\ RAdd(LastRecord.load_kw, MaxGridCharge(trace.raw)) = R(230, 1)
    /\ RAdd(LastRecord.load_kw, MaxGridCharge(trace.capped)) = R(200, 1)
    /\ RPos(LastRecord.p_batt_kw)

\* the larger of the two formulas' discharging grid powers
MaxGridDischarge(pe) == RMax(RMax(RNeg(pe.p_grid_phys), RNeg(pe.p_grid_sample)), Zero)

\* C4: for every record with load > 0, under both formulas the discharge
\* grid-effect power is at most max(load - reserve_discharge_kw, 0) (1e-6), so
\* load + grid-effect power is not below min(load, reserve_discharge_kw) and
\* not negative; the per-window clamp that follows keeps it so.
C4_NoReverseFeedIn ==
    \A i \in 1..Len(records) :
        LET r == records[i]
            allowed == RMax(RSub(r.load_kw, Cfg.reserve_dis), Zero)
            floor_kw == RMin(r.load_kw, Cfg.reserve_dis)
        IN  RPos(r.load_kw) =>
               /\ LeTol(RNeg(r.p_grid_effect_physics_kw), allowed, E6)
               /\ LeTol(RNeg(r.p_grid_effect_sample_kw), allowed, E6)
               /\ LeTol(floor_kw, RAdd(r.load_kw, r.p_grid_effect_physics_kw), E6)
               /\ LeTol(floor_kw, RAdd(r.load_kw, r.p_grid_effect_sample_kw), E6)
               /\ LeTol(Zero, RAdd(r.load_kw, r.p_grid_effect_sample_kw), E6)

\* a discharge point with a reserve whose grid power was above the allowance
\* before the clip, and whose window clamp then cut it further
C4_Witness ==
    /\ records # <<>>
    /\ trace.win_key # NoKey
    /\ RPos(Cfg.reserve_dis)
    /\ RLt(LastRecord.p_batt_kw, Zero)
    /\ RGt(MaxGridDischarge(trace.capped), RSub(LastRecord.load_kw, Cfg.reserve_dis))
    /\ MaxGridDischarge(trace.unfed) = RSub(LastRecord.load_kw, Cfg.reserve_dis)
    /\ trace.final # trace.unfed

\* C5: in every record the magnitude of p_batt_kw is at most c_rate x
\* capacity_kwh, for every storage configuration, capacity_kwh = 0 and
\* c_rate = 0 included.
C5_PowerWithinRate ==
    \A i \in 1..Len(records) :
        RLe(RAbs(records[i].p_batt_kw),
            RMul(OrDefault(storage_cfg.capacity_kwh, Zero),
                 IF storage_cfg.c_rate = None THEN R(1, 2) ELSE storage_cfg.c_rate))

\* C6: every clipping step multiplies the seven quantities of the point by one
\* factor of [0, 1]; so in every record p_grid_effect_f x 0.25 = e_in_f - e_out_f
\* for both formulas, and the energies keep their conversion to battery power:
\* charging e_in = p x 0.25 x DOD/eta (physics), p x 0.25 x eta/DOD (sample);
\* discharging e_out = |p| x 0.25 x DOD x eta (physics), |p| x 0.25 / (DOD x eta)
\* (sample).
C6_UniformScaling ==
    /\ \A i \in 1..Len(records) :
          LET r == records[i]
              e_batt == RMul(RAbs(r.p_batt_kw), dt_hours)
              dod == Cfg.effective_dod
              eta == Cfg.eta
          IN  /\ RMul(r.p_grid_effect_physics_kw, dt_hours)
                    = RSub(r.e_in_physics_kwh, r.e_out_physics_kwh)
              /\ RMul(r.p_grid_effect_sample_kw, dt_hours)
                    = RSub(r.e_in_sample_kwh, r.e_out_sample_kwh)
              /\ RPos(r.p_batt_kw) =>
                    /\ r.e_in_physics_kwh = RMul(e_batt, RDiv(dod, eta))
                    /\ r.e_in_sample_kwh = RMul(e_batt, RDiv(eta, dod))
                    /\ r.e_out_physics_kwh = Zero /\ r.e_out_sample_kwh = Zero
              /\ RLt(r.p_batt_kw, Zero) =>
                    /\ r.e_out_physics_kwh = RMul(e_batt, RMul(dod, eta))
                    /\ r.e_out_sample_kwh = RDiv(e_batt, RMul(dod, eta))
                    /\ r.e_in_physics_kwh = Zero /\ r.e_in_sample_kwh = Zero
              /\ r.p_batt_kw = Zero =>
                    /\ r.e_in_physics_kwh = Zero /\ r.e_in_sample_kwh = Zero
                    /\ r.e_out_physics_kwh = Zero /\ r.e_out_sample_kwh = Zero
    /\ records # <<>> =>
          /\ IsScaled(trace.raw, trace.capped)
          /\ IsScaled(trace.capped, trace.unfed)
          /\ IsScaled(trace.unfed, trace.final)
          /\ LastRecord.p_batt_kw = trace.final.p_batt
          /\ LastRecord.p_grid_effect_sample_kw = trace.final.p_grid_sample

\* a charge point cut by the transformer clip and again by its window clamp,
\* with power left
C6_Witness ==
    /\ records # <<>>
    /\ RPos(LastRecord.p_batt_kw)
    /\ RLt(trace.capped.p_batt, trace.raw.p_batt)
    /\ RLt(trace.final.p_batt, trace.unfed.p_batt)

\* the full ratios a debug row holds
RatiosOf(m) ==
    {m.full_ratio, m.full_ratio_physics, m.full_ratio_sample, m.full_ratio_step15,
     m.full_ratio_physics_step15, m.full_ratio_sample_step15} \ {None}

\* C7: every full ratio of every debug row (full_ratio, full_ratio_physics,
\* full_ratio_sample and the step15 ones) lies in [0, 1]; it is 0 when the
\* capacity is not positive or the window selects no points.
C7_FullRatioInUnitInterval ==
    window_debug # None =>
        \A i \in 1..Len(window_debug) :
            LET m == window_debug[i].met
            IN  /\ RatiosOf(m) # {}
                /\ \A v \in RatiosOf(m) : RLe(Zero, v) /\ RLe(v, One)
                /\ (~RPos(OrDefault(storage_cfg.capacity_kwh, Zero)) \/ m.points = 0) =>
                      RatiosOf(m) = {Zero}

\* a row whose grid-side energy is more than the capacity and whose ratio is 1
C7_Witness ==
    /\ window_debug # None
    /\ \E i \in 1..Len(window_debug) :
          /\ window_debug[i].met.points > 0
          /\ RPos(OrDefault(storage_cfg.capacity_kwh, Zero))
          /\ RGt(window_debug[i].met.e_grid_kwh, OrDefault(storage_cfg.capacity_kwh, Zero))
          /\ window_debug[i].met.full_ratio = One

\* the debug row of a date, window and kind
RowOf(rows, date, w, kind) ==
    rows[CHOOSE i \in 1..Len(rows) :
            rows[i].date = date /\ rows[i].window = w /\ rows[i].kind = kind]

\* the main formula's window-average ratio of a row, 0 for a row without points
MainRatio(row) ==
    LET v == IF energy_formula = "physics" THEN row.met.full_ratio_physics
             ELSE row.met.full_ratio_sample
    IN  IF v = None THEN Zero ELSE v

WindowContribution(date, w) ==
    RMin(MainRatio(RowOf(window_debug, date, w, OP_CHARGE)),
         MainRatio(RowOf(window_debug, date, w, OP_DISCHARGE)))

\* C8: the cycles of every date are min(charge ratio, discharge ratio) of c1
\* plus that of c2, with the main formula's window-average ratios; a window
\* without charge hours or without discharge hours contributes 0, and the
\* cycles lie in [0, 2].
C8_DayCycles ==
    days # None =>
        \A k \in 1..Len(days) :
            LET d == days[k].date
            IN  /\ days[k].cycles = RAdd(WindowContribution(d, "c1"),
                                         WindowContribution(d, "c2"))
                /\ RLe(Zero, days[k].cycles) /\ RLe(days[k].cycles, R(2, 1))
                /\ \A w \in {"c1", "c2"} :
                      (\E kind \in {OP_CHARGE, OP_DISCHARGE} :
                          RowOf(window_debug, d, w, kind).hour_list = <<>>) =>
                         WindowContribution(d, w) = Zero

\* a day whose c1 has both sides and counts, and whose c2 has discharge hours
\* with a positive ratio but no charge hours
C8_Witness ==
    /\ days # None
    /\ \E k \in 1..Len(days) :
          LET d == days[k].date
          IN  /\ RPos(WindowContribution(d, "c1"))
              /\ RowOf(window_debug, d, "c2", OP_CHARGE).hour_list = <<>>
              /\ RPos(MainRatio(RowOf(window_debug, d, "c2", OP_DISCHARGE)))
              /\ days[k].cycles = WindowContribution(d, "c1")

\* the full ratios of the same row in the two runs, as <<smaller capacity's,
\* larger capacity's>> pairs
RatioPairs ==
    LET cap == OrDefault(storage_cfg.capacity_kwh, Zero)
        lo == IF RLt(prev_run.cap, cap) THEN prev_run.window_debug ELSE window_debug
        hi == IF RLt(prev_run.cap, cap) THEN window_debug ELSE prev_run.window_debug
        Fields(m) == <<m.full_ratio, m.full_ratio_physics, m.full_ratio_sample,
                       m.full_ratio_step15, m.full_ratio_physics_step15,
                       m.full_ratio_sample_step15>>
    IN  {<<Fields(lo[i].met)[j], Fields(hi[i].met)[j]>> :
            i \in 1..Len(window_debug), j \in 1..6}

SecondRunDone == prev_run # None /\ pc = "sim_begin"

SmallerCap == RMin(prev_run.cap, OrDefault(storage_cfg.capacity_kwh, Zero))

\* C9 as stated: of two runs that differ only in capacity_kwh, the one with the
\* larger capacity has every full ratio greater than or equal to the other's,
\* and a ratio of 1.0 stays 1.0 at the larger capacity.
C9_RatioNonDecreasingInCapacity ==
    SecondRunDone =>
        \A pr \in RatioPairs :
            pr[1] # None => (RLe(pr[1], pr[2]) /\ (pr[1] = One => pr[2] = One))

\* C9 amended: of two runs that differ only in a positive capacity_kwh, the one
\* with the larger capacity has every full ratio less than or equal to the
\* other's, and a ratio of 1.0 at the larger capacity is 1.0 at the smaller;
\* with capacity 0 every ratio is 0.
C9_RatioNonIncreasingInCapacity ==
    SecondRunDone =>
        \A pr \in RatioPairs :
            pr[1] # None =>
               /\ pr[2] # None
               /\ RPos(SmallerCap) => (RGe(pr[1], pr[2]) /\ (pr[2] = One => pr[1] = One))
               /\ ~RPos(SmallerCap) => pr[1] = Zero

\* two runs with positive capacities and a ratio that fell from 1.0 when the
\* capacity grew
C9_Witness ==
    /\ SecondRunDone
    /\ RPos(SmallerCap)
    /\ \E pr \in RatioPairs : pr[1] = One /\ pr[2] # None /\ RLt(pr[2], One) /\ RPos(pr[2])

\* C10: a day whose loads are all zero and whose schedule has no discharge
\* hour has cycles 0 and a profit entry with revenue 0, cost 0 and profit 0
\* under every formula, in both limit modes and for any prices.
C10_IdleDayEarnsNothing ==
    pc = "done" =>
        \A d \in DOMAIN daily_ops :
            (/\ \A i \in 1..Len(series_15m) :
                   series_15m[i].date = d => series_15m[i].load_kw = Zero
             /\ \A h \in 1..Len(daily_ops[d]) : daily_ops[d][h] # OP_DISCHARGE) =>
                /\ \A k \in 1..Len(days) : days[k].date = d => days[k].cycles = Zero
                /\ d \in DOMAIN profit.days =>
                      \A f \in {"main", "physics", "sample"} :
                         /\ profit.days[d][f].revenue = Zero
                         /\ profit.days[d][f].cost = Zero
                         /\ profit.days[d][f].profit = Zero

-----------------------------------------------------------------------------
(* Properties of the whole request.                                        *)

\* C11: with capacity_kwh = 0 the request finishes with zero results only:
\* every day's cycles are 0, every record has p_batt_kw = 0 and zero
\* energies under both formulas, and every profit entry has revenue, cost
\* and profit 0.
C11_ZeroCapacityZeroResults ==
    (pc = "done" /\ OrDefault(storage_cfg.capacity_kwh, Zero) = Zero) =>
        /\ \A k \in 1..Len(days) : days[k].cycles = Zero
        /\ \A i \in 1..Len(records) :
              /\ records[i].p_batt_kw = Zero
              /\ records[i].e_in_physics_kwh = Zero /\ records[i].e_out_physics_kwh = Zero
              /\ records[i].e_in_sample_kwh = Zero /\ records[i].e_out_sample_kwh = Zero
        /\ \A f \in {"main", "physics", "sample"} :
              /\ \A d \in DOMAIN profit.days :
                    /\ profit.days[d][f].revenue = Zero
                    /\ profit.days[d][f].cost = Zero
                    /\ profit.days[d][f].profit = Zero
              /\ profit.year[f].revenue = Zero
              /\ profit.year[f].cost = Zero
              /\ profit.year[f].profit = Zero

-----------------------------------------------------------------------------
(* Calls of single functions, outside the request pipeline.                *)

\* a state in which one function is about to be called with the arguments c
\* and the pipeline has not started
FunctionInit(c) ==
    /\ pc = "call"
    /\ call = c
    /\ storage_cfg = BaseStorage
    /\ energy_formula = "physics"
    /\ metering = [mode |-> "monthly_demand_max", kva |-> None, pf |-> None]
    /\ series_15m = <<>>
    /\ daily_ops = None
    /\ price_series = <<>>
    /\ limit_info = None
    /\ daily_masks = None
    /\ days = None
    /\ window_debug = None
    /\ window_targets = None
    /\ window_state = <<>>
    /\ current_soc = None
    /\ idx = 0
    /\ records = <<>>
    /\ trace = NoTrace
    /\ profit = None
    /\ prev_run = None
    /\ stored_snapshot = None

Pipeline == <<storage_cfg, energy_formula, metering, series_15m, daily_ops,
              price_series, limit_info, daily_masks, days, window_debug,
              window_targets, window_state, current_soc, idx, records, trace,
              profit, prev_run, stored_snapshot>>

Returned(fn) == pc = "return" /\ call.fn = fn

-----------------------------------------------------------------------------
(* build_daily_cycles_masks on one day's 24 labels.                        *)

\* the first MaskHead and the last MaskTail hours of the day carry any label,
\* the hours between them are standby
MaskHead == 5
MaskTail == 2

MaskOps ==
    {[h \in 1..HoursPerDay |->
        IF h <= MaskHead THEN head[h]
        ELSE IF h > HoursPerDay - MaskTail THEN tail[h - (HoursPerDay - MaskTail)]
        ELSE OP_STANDBY] :
     head \in [1..MaskHead -> {OP_CHARGE, OP_DISCHARGE, OP_STANDBY}],
     tail \in [1..MaskTail -> {OP_CHARGE, OP_DISCHARGE, OP_STANDBY}]}

MaskThresholds == {30, 60, 90, 150}

InitMasks ==
    \E ops \in MaskOps, thr \in MaskThresholds, wrap \in BOOLEAN :
        FunctionInit([fn |-> "build_daily_cycles_masks", ops |-> ops,
                      merge_threshold_minutes |-> thr,
                      wrap_across_midnight |-> wrap, result |-> None])

CallBuildDailyCyclesMasks ==
    /\ pc = "call" /\ call.fn = "build_daily_cycles_masks"
    /\ pc' = "return"
    /\ call' = [call EXCEPT !.result =
                  [masks |-> MasksOfDay(call.ops, call.merge_threshold_minutes,
                                        call.wrap_across_midnight),
                   runs_debug |-> RunsDebugOfDay(call.ops, call.merge_threshold_minutes,
                                                 call.wrap_across_midnight)]]
    /\ UNCHANGED Pipeline

NextMasks == CallBuildDailyCyclesMasks

SpecMasks == InitMasks /\ [][NextMasks]_vars

\* the runs of the called day
CallRuns == _hour_runs_from_ops(call.ops, call.wrap_across_midnight)

RunDropped(r) == Len(r.hours) * 60 < call.merge_threshold_minutes

\* 1-based rank of run i among the runs that are not dropped
SurvivorRank(runs, i) == Cardinality({j \in 1..i : ~RunDropped(runs[j])})

HoursField(kind) == IF kind = OP_CHARGE THEN "charge_hours" ELSE "discharge_hours"

MaskSet(w, field) == SeqSet(call.result.masks[w][field])

\* C12: a run is dropped exactly when length_hours * 60 < merge_threshold_minutes;
\* the surviving runs are numbered among the survivors only, the first and the
\* second go to c1 and every later one to c2, and the hours of a run go to
\* charge_hours or discharge_hours by the run's kind.
C12_DropAndNumberSurvivors ==
    Returned("build_daily_cycles_masks") =>
        LET runs == CallRuns
            masks == call.result.masks
        IN  /\ Len(call.result.runs_debug) = Len(runs)
            /\ \A i \in 1..Len(runs) :
                  /\ call.result.runs_debug[i].filtered_by_threshold
                        <=> RunDropped(runs[i])
                  /\ \A w \in {"c1", "c2"}, f \in {"charge_hours", "discharge_hours"} :
                        IF /\ ~RunDropped(runs[i])
                           /\ w = (IF SurvivorRank(runs, i) <= 2 THEN "c1" ELSE "c2")
                           /\ f = HoursField(runs[i].kind)
                        THEN SeqSet(runs[i].hours) \subseteq SeqSet(masks[w][f])
                        ELSE SeqSet(runs[i].hours) \cap SeqSet(masks[w][f]) = {}
            /\ \A w \in {"c1", "c2"}, f \in {"charge_hours", "discharge_hours"} :
                  SeqSet(masks[w][f]) \subseteq
                      UNION {SeqSet(runs[i].hours) : i \in 1..Len(runs)}

\* a dropped run comes before a survivor that is second among the survivors,
\* and a third survivor exists
C12_Witness ==
    /\ Returned("build_daily_cycles_masks")
    /\ LET runs == CallRuns
       IN  /\ \E i, j \in 1..Len(runs) :
                 /\ i < j /\ RunDropped(runs[i]) /\ ~RunDropped(runs[j])
                 /\ SurvivorRank(runs, j) = 2
           /\ \E i \in 1..Len(runs) :
                 ~RunDropped(runs[i]) /\ SurvivorRank(runs, i) >= 3

AllMaskSets == {<<w, f>> : w \in {"c1", "c2"}, f \in {"charge_hours", "discharge_hours"}}

\* C13: each hour of the day appears in at most one of the four sets; a standby
\* hour appears in none, a charge hour only in a charge set and a discharge
\* hour only in a discharge set.
C13_MasksExclusive ==
    Returned("build_daily_cycles_masks") =>
        \A h \in 0..(HoursPerDay - 1) :
            /\ Cardinality({s \in AllMaskSets : h \in MaskSet(s[1], s[2])}) <= 1
            /\ call.ops[h + 1] = OP_STANDBY =>
                  \A s \in AllMaskSets : h \notin MaskSet(s[1], s[2])
            /\ call.ops[h + 1] = OP_CHARGE =>
                  \A w \in {"c1", "c2"} : h \notin MaskSet(w, "discharge_hours")
            /\ call.ops[h + 1] = OP_DISCHARGE =>
                  \A w \in {"c1", "c2"} : h \notin MaskSet(w, "charge_hours")

\* the first and the last run were merged across midnight and all four sets
\* are in use
C13_Witness ==
    /\ Returned("build_daily_cycles_masks")
    /\ call.wrap_across_midnight
    /\ \A s \in AllMaskSets : MaskSet(s[1], s[2]) # {}
    /\ \E s \in AllMaskSets : {0, HoursPerDay - 1} \subseteq MaskSet(s[1], s[2])

-----------------------------------------------------------------------------
(* Daily Operation Builder: _date_range, _match_rule, build_daily_ops.     *)

\* Python None where a dict is expected
NoneDict == [none |-> TRUE]

\* a date string that datetime.fromisoformat rejects
BadDate == <<>>

DaysInMonth == <<31, 28, 31, 30, 31, 30, 31, 31, 30, 31, 30, 31>>

\* cur += timedelta(days=1), within one year
NextDay(d) == IF d[2] < DaysInMonth[d[1]] THEN <<d[1], d[2] + 1>> ELSE <<d[1] + 1, 1>>

RECURSIVE _date_range(_, _)
_date_range(start, end) ==
    IF DateLe(start, end) THEN <<start>> \o _date_range(NextDay(start), end) ELSE <<>>

\* the first rule whose dates parse and whose closed range holds d
RECURSIVE _match_rule(_, _)
_match_rule(d, date_rules) ==
    IF date_rules = <<>> THEN NoneDict
    ELSE LET r == Head(date_rules)
         IN  IF r.startDate = BadDate \/ r.endDate = BadDate
             THEN _match_rule(d, Tail(date_rules))
             ELSE IF DateLe(r.startDate, d) /\ DateLe(d, r.endDate)
                  THEN r
                  ELSE _match_rule(d, Tail(date_rules))

\* a label taken as it stands
ExtractHourOpsUnchecked(cell) ==
    IF cell # NoneDict /\ "op" \in DOMAIN cell THEN cell.op ELSE OP_STANDBY

_extract_hour_ops(cell) ==
    LET op == IF cell # NoneDict /\ "op" \in DOMAIN cell THEN cell.op ELSE OP_STANDBY
    IN  IF op \notin {OP_CHARGE, OP_DISCHARGE, OP_STANDBY} THEN OP_STANDBY ELSE op

\* the 24 labels of one day
OpsOfDate(d, monthly_schedule, date_rules) ==
    LET rule == _match_rule(d, date_rules)
    IN  IF rule # NoneDict /\ "schedule" \in DOMAIN rule /\ Len(rule.schedule) >= 24
        THEN [h \in 1..HoursPerDay |-> _extract_hour_ops(rule.schedule[h])]
        ELSE LET m_idx == d[1] - 1
                 row == IF monthly_schedule # <<>> /\ 0 <= m_idx
                           /\ m_idx < Len(monthly_schedule)
                        THEN monthly_schedule[m_idx + 1]
                        ELSE <<>>
             IN  [h \in 1..HoursPerDay |->
                    _extract_hour_ops(IF h - 1 < Len(row) THEN row[h] ELSE NoneDict)]

\* series_span: <<first date, last date>> of the load index, <<>> when it is empty
build_daily_ops(series_span, monthly_schedule, date_rules) ==
    IF series_span = <<>> THEN <<>>
    ELSE LET ds == _date_range(series_span[1], series_span[2])
         IN  [d \in SeqSet(ds) |-> OpsOfDate(d, monthly_schedule, date_rules)]

-----------------------------------------------------------------------------
(* build_daily_ops on load spans around the end of January.                *)

MaxRules == 2

Cell(label) == [op |-> label]

\* a list of n cells, a at the even hours and b at the odd hours
CellRow(a, b, n) == [h \in 1..n |-> IF h % 2 = 1 THEN a ELSE b]

RuleSchedules ==
    {CellRow(Cell(OP_CHARGE), Cell(OP_DISCHARGE), HoursPerDay),
     CellRow(Cell("x"), NoneDict, HoursPerDay),
     CellRow(Cell(OP_CHARGE), Cell(OP_CHARGE), HoursPerDay - 1)}

RuleRanges ==
    {<< <<1, 30>>, <<1, 31>> >>, << <<1, 31>>, <<2, 1>> >>, << BadDate, <<2, 2>> >>}

\* rules with a schedule, and one rule without
DateRules ==
    {[startDate |-> g[1], endDate |-> g[2], schedule |-> s] :
        g \in RuleRanges, s \in RuleSchedules}
    \cup {[startDate |-> <<1, 30>>, endDate |-> <<1, 31>>]}

RuleLists == UNION {[1..n -> DateRules] : n \in 0..MaxRules}

MonthRows ==
    {CellRow(Cell(OP_DISCHARGE), Cell(OP_STANDBY), HoursPerDay),
     CellRow(Cell(OP_CHARGE), Cell("x"), 2),
     <<>>}

\* no table, a table that ends after January, a table with February
MonthTables == UNION {[1..n -> MonthRows] : n \in 0..2}

LoadSpans ==
    {<<>>} \cup {<<s, e>> : s \in {<<1, 30>>, <<1, 31>>},
                            e \in {<<1, 31>>, <<2, 1>>, <<2, 2>>}}

InitOps ==
    \E span \in LoadSpans, table \in MonthTables, rules \in RuleLists :
        FunctionInit([fn |-> "build_daily_ops", series_span |-> span,
                      monthly_schedule |-> table, date_rules |-> rules,
                      result |-> None])

CallBuildDailyOps ==
    /\ pc = "call" /\ call.fn = "build_daily_ops"
    /\ pc' = "return"
    /\ call' = [call EXCEPT !.result =
                  build_daily_ops(call.series_span, call.monthly_schedule,
                                  call.date_rules)]
    /\ UNCHANGED Pipeline

NextOps == CallBuildDailyOps

SpecOps == InitOps /\ [][NextOps]_vars

\* rule r covers date d and carries a schedule of 24 entries
RuleApplies(r, d) ==
    /\ r.startDate # BadDate /\ r.endDate # BadDate
    /\ DateLe(r.startDate, d) /\ DateLe(d, r.endDate)
    /\ "schedule" \in DOMAIN r
    /\ Len(r.schedule) = HoursPerDay

ApplyingRules(d) ==
    {call.date_rules[i] : i \in {j \in 1..Len(call.date_rules) :
                                    RuleApplies(call.date_rules[j], d)}}

LabelsOfRule(r) == [h \in 1..HoursPerDay |-> _extract_hour_ops(r.schedule[h])]

\* the labels of StrategyTable[month - 1], standby where the table has no cell
LabelsOfMonth(d) ==
    [h \in 1..HoursPerDay |->
        IF d[1] <= Len(call.monthly_schedule)
           /\ h <= Len(call.monthly_schedule[d[1]])
        THEN _extract_hour_ops(call.monthly_schedule[d[1]][h])
        ELSE OP_STANDBY]

\* C14: when some rule covers the date and has a schedule of 24 entries, the
\* labels of the day come from such a rule; the month table is used only when
\* no rule satisfies both conditions.
C14_ApplicableRuleWins ==
    Returned("build_daily_ops") =>
        \A d \in DOMAIN call.result :
            IF ApplyingRules(d) # {}
            THEN \E r \in ApplyingRules(d) : call.result[d] = LabelsOfRule(r)
            ELSE call.result[d] = LabelsOfMonth(d)

CalendarDates == {md \in (1..12) \X (1..31) : md[2] <= DaysInMonth[md[1]]}

\* C15: the result has an entry for every calendar date from the first to the
\* last load date, each of exactly 24 labels out of charge, discharge and
\* standby; an unknown label, a missing cell, a short month row and a missing
\* month table give standby.
C15_FailsClosed ==
    Returned("build_daily_ops") /\ call.series_span # <<>> =>
        /\ DOMAIN call.result =
              {d \in CalendarDates : DateLe(call.series_span[1], d)
                                     /\ DateLe(d, call.series_span[2])}
        /\ \A d \in DOMAIN call.result :
              /\ DOMAIN call.result[d] = 1..HoursPerDay
              /\ \A h \in 1..HoursPerDay :
                    call.result[d][h] \in {OP_CHARGE, OP_DISCHARGE, OP_STANDBY}
              /\ (\A i \in 1..Len(call.date_rules) :
                     call.date_rules[i].startDate = BadDate)
                 => LET row == IF d[1] <= Len(call.monthly_schedule)
                               THEN call.monthly_schedule[d[1]] ELSE <<>>
                    IN  \A h \in 1..HoursPerDay :
                           (h > Len(row) \/ row[h] = Cell("x"))
                           => call.result[d][h] = OP_STANDBY

\* a span over the end of January whose February row is missing and whose
\* January row is short and holds an unknown label, with no rule in force
C15_Witness ==
    /\ Returned("build_daily_ops")
    /\ call.series_span = << <<1, 30>>, <<2, 2>> >>
    /\ Len(call.monthly_schedule) = 1
    /\ Len(call.monthly_schedule[1]) = 2
    /\ call.date_rules # <<>>
    /\ \A i \in 1..Len(call.date_rules) : call.date_rules[i].startDate = BadDate
    /\ Cardinality(DOMAIN call.result) = 4

-----------------------------------------------------------------------------
(* compute_limit_info on short load series over two months.                *)

LimitPoints == 3

\* a load of None is a NaN row, which dropna removes
LimitLoads == {Zero, R(50, 1), R(180, 1), None}

LimitSeries ==
    UNION {[1..n -> [date : {<<1, 31>>, <<2, 1>>}, load_kw : LimitLoads]] :
             n \in 0..LimitPoints}

\* NoKind: no metering mode given
LimitModes == {"monthly_demand_max", "transformer_capacity", "demand", NoKind}

InitLimit ==
    \E s \in LimitSeries, mode \in LimitModes,
       kva \in {None, Zero, R(250, 1)}, pf \in {None, R(4, 5)} :
        FunctionInit([fn |-> "compute_limit_info", series_15m |-> s,
                      metering_mode |-> mode, transformer_capacity_kva |-> kva,
                      transformer_power_factor |-> pf, result |-> None])

CallComputeLimitInfo ==
    /\ pc = "call" /\ call.fn = "compute_limit_info"
    /\ pc' = "return"
    /\ call' = [call EXCEPT !.result =
                  compute_limit_info(call.series_15m, call.metering_mode,
                                     call.transformer_capacity_kva,
                                     call.transformer_power_factor)]
    /\ UNCHANGED Pipeline

NextLimit == CallComputeLimitInfo

SpecLimit == InitLimit /\ [][NextLimit]_vars

\* the loads (NaN rows aside) of one month of the called series
LoadsOfMonth(ym) ==
    {call.series_15m[i].load_kw :
        i \in {j \in 1..Len(call.series_15m) :
                 /\ YearMonth(call.series_15m[j].date) = ym
                 /\ call.series_15m[j].load_kw # None}}

\* C16: in transformer mode with kVA and power factor the result has limit_mode
\* transformer_capacity and the limit kVA * pf; with one of them absent, or with
\* an unknown mode, it has limit_mode monthly_demand_max and no transformer
\* limit, and a note when a parameter is missing; an empty series gives an empty
\* monthly table and a note; otherwise the table has one entry per month that
\* has a load, equal to the largest load of the month.
C16_LimitInfo ==
    Returned("compute_limit_info") =>
        LET res == call.result
            kva == call.transformer_capacity_kva
            pf == call.transformer_power_factor
            transformer == call.metering_mode = "transformer_capacity"
        IN  /\ (transformer /\ kva # None /\ pf # None) =>
                  /\ res.limit_mode = "transformer_capacity"
                  /\ res.transformer_limit_kw = RMul(kva, pf)
            /\ (transformer /\ (kva = None \/ pf = None)) =>
                  /\ res.limit_mode = "monthly_demand_max"
                  /\ res.transformer_limit_kw = None
                  /\ "transformer parameters missing" \in SeqSet(res.notes)
            /\ ~transformer =>
                  /\ res.limit_mode = "monthly_demand_max"
                  /\ res.transformer_limit_kw = None
            /\ call.series_15m = <<>> =>
                  /\ DOMAIN res.monthly_demand_max = {}
                  /\ "empty series" \in SeqSet(res.notes)
            /\ DOMAIN res.monthly_demand_max = {ym \in 1..12 : LoadsOfMonth(ym) # {}}
            /\ \A ym \in DOMAIN res.monthly_demand_max :
                  /\ res.monthly_demand_max[ym] \in LoadsOfMonth(ym)
                  /\ \A x \in LoadsOfMonth(ym) : RLe(x, res.monthly_demand_max[ym])

\* transformer mode without a power factor, on a series of two months whose
\* largest load is not the first of its month
C16_Witness ==
    /\ Returned("compute_limit_info")
    /\ call.metering_mode = "transformer_capacity"
    /\ call.transformer_capacity_kva # None
    /\ call.transformer_power_factor = None
    /\ DOMAIN call.result.monthly_demand_max = {1, 2}
    /\ \E i \in 2..Len(call.series_15m) :
          /\ call.series_15m[i].date = call.series_15m[1].date
          /\ call.series_15m[1].load_kw # None
          /\ call.series_15m[i].load_kw # None
          /\ RLt(call.series_15m[1].load_kw, call.series_15m[i].load_kw)

-----------------------------------------------------------------------------
(* Discharge allocation by price: _allocate_discharge_by_price.            *)

\* df['price'].fillna(0.0)
PriceOrZeroFilled(p) == IF p.price = None THEN Zero ELSE p.price

\* row i comes before row j in sort_values(['price', 'timestamp'], [False, True])
SortsBefore(points, i, j) ==
    \/ RGt(PriceOrZeroFilled(points[i]), PriceOrZeroFilled(points[j]))
    \/ PriceOrZeroFilled(points[i]) = PriceOrZeroFilled(points[j]) /\ i < j

\* an order that visits the cheapest point first
AllocOrderCheapestFirst(points) ==
    LET Rank(i) == Cardinality({j \in 1..Len(points) : SortsBefore(points, i, j)}) + 1
    IN  [k \in 1..Len(points) |-> CHOOSE i \in 1..Len(points) : Rank(i) = k]

\* the indices of the points in the order of the sorted frame
AllocOrder(points) ==
    LET Rank(i) == Cardinality({j \in 1..Len(points) : SortsBefore(points, j, i)}) + 1
    IN  [k \in 1..Len(points) |-> CHOOSE i \in 1..Len(points) : Rank(i) = k]

\* max_energy_this_point after the cut by load and reserve
PointCap(p, reserve_dis) ==
    LET max_energy_this_point == OrDefault(p.e_out_main_kwh, Zero)
        load_kw == OrDefault(p.load_kw, Zero)
        allow_by_load == RMul(RMax(RSub(load_kw, reserve_dis), Zero), R(1, 4))
    IN  RMax(Zero, RMin(max_energy_this_point, allow_by_load))

\* the loop over the sorted rows from position k on
RECURSIVE AllocLoop(_, _, _, _, _, _)
AllocLoop(points, order, reserve_dis, k, remaining_energy, alloc) ==
    IF k > Len(order) \/ LeTol(remaining_energy, Zero, E6) THEN alloc
    ELSE LET cap == PointCap(points[order[k]], reserve_dis)
             allocated == RMin(cap, remaining_energy)
         IN  IF LeTol(cap, Zero, E9)
             THEN AllocLoop(points, order, reserve_dis, k + 1, remaining_energy, alloc)
             ELSE AllocLoop(points, order, reserve_dis, k + 1,
                            RSub(remaining_energy, allocated),
                            [alloc EXCEPT ![order[k]] = allocated])

\* allocated_energy_kwh of the points, in time order
_allocate_discharge_by_price(discharge_points, max_discharge_energy, cfg) ==
    LET none == [i \in 1..Len(discharge_points) |-> Zero]
    IN  IF discharge_points = <<>> \/ RLe(max_discharge_energy, Zero) THEN none
        ELSE AllocLoop(discharge_points, AllocOrder(discharge_points),
                       OrDefault(cfg.reserve_discharge_kw, Zero), 1,
                       max_discharge_energy, none)

-----------------------------------------------------------------------------
(* _allocate_discharge_by_price on short discharge windows.                *)

AllocPoints == 3

\* the discharge points of a day in time order: energy cap, load and price
AllocWindows ==
    UNION {[1..n -> [e_out_main_kwh : {Zero, R(8, 1)},
                     load_kw : {R(32, 1), R(100, 1)},
                     price : {R(3, 10), R(6, 5), None}]] : n \in 0..AllocPoints}

AllocBudgets == {Zero, R(1, E6), R(10, 1), R(100, 1)}

InitAlloc ==
    \E w \in AllocWindows, b \in AllocBudgets, rsv \in {Zero, R(20, 1)} :
        FunctionInit([fn |-> "_allocate_discharge_by_price", discharge_points |-> w,
                      max_discharge_energy |-> b,
                      storage_cfg |-> [BaseStorage EXCEPT !.reserve_discharge_kw = rsv],
                      result |-> None])

CallAllocateDischargeByPrice ==
    /\ pc = "call" /\ call.fn = "_allocate_discharge_by_price"
    /\ pc' = "return"
    /\ call' = [call EXCEPT !.result =
                  _allocate_discharge_by_price(call.discharge_points,
                                               call.max_discharge_energy,
                                               call.storage_cfg)]
    /\ UNCHANGED Pipeline

NextAlloc == CallAllocateDischargeByPrice

SpecAlloc == InitAlloc /\ [][NextAlloc]_vars

\* cap_i = max(0, min(discharge energy_i, (load_i - reserve_discharge) * 0.25))
CapOf(i) ==
    LET p == call.discharge_points[i]
    IN  RMax(Zero, RMin(p.e_out_main_kwh,
                        RMul(RSub(p.load_kw, call.storage_cfg.reserve_discharge_kw),
                             R(1, 4))))

CapSum == SumSeq([i \in 1..Len(call.discharge_points) |-> CapOf(i)])

\* C17: every allocation lies in [0, cap_i]; the allocations sum to
\* min(B, sum of caps) within 1e-6; and when point i has a higher price than
\* point j, or the same price and an earlier timestamp, alloc_j > 0 implies
\* alloc_i = cap_i.  A missing price counts as 0.
C17_GreedyByPrice ==
    Returned("_allocate_discharge_by_price") =>
        LET n == Len(call.discharge_points)
            alloc == call.result
            target == RMin(call.max_discharge_energy, CapSum)
        IN  /\ Len(alloc) = n
            /\ \A i \in 1..n : RLe(Zero, alloc[i]) /\ RLe(alloc[i], CapOf(i))
            /\ LeTol(RAbs(RSub(SumSeq(alloc), target)), Zero, E6)
            /\ \A i, j \in 1..n :
                  (SortsBefore(call.discharge_points, i, j) /\ RPos(alloc[j]))
                  => alloc[i] = CapOf(i)

\* caps 8 and 8, budget 10, prices 0.3 and 1.2: allocations 2 and 8
C17_Witness ==
    /\ Returned("_allocate_discharge_by_price")
    /\ Len(call.discharge_points) = 2
    /\ CapOf(1) = R(8, 1) /\ CapOf(2) = R(8, 1)
    /\ call.max_discharge_energy = R(10, 1)
    /\ call.discharge_points[1].price = R(3, 10)
    /\ call.discharge_points[2].price = R(6, 5)
    /\ call.result = <<R(2, 1), R(8, 1)>>

-----------------------------------------------------------------------------
(* compute_profit_summary_step15 on rows of three days in two months.      *)

ProfitRows == 3

\* the energies of a charging and of a discharging row
RowEnergies ==
    {[e_in_physics_kwh |-> R(18, 1), e_in_sample_kwh |-> R(10, 1),
      e_out_physics_kwh |-> Zero, e_out_sample_kwh |-> Zero],
     [e_in_physics_kwh |-> Zero, e_in_sample_kwh |-> Zero,
      e_out_physics_kwh |-> R(9, 1), e_out_sample_kwh |-> R(20, 1)]}

ProfitDates == {<<1, 30>>, <<1, 31>>, <<2, 1>>}

\* rows in time order
ProfitFrames ==
    {[i \in 1..Len(ds) |->
        [date |-> ds[i], price |-> ps[i],
         e_in_physics_kwh |-> es[i].e_in_physics_kwh,
         e_in_sample_kwh |-> es[i].e_in_sample_kwh,
         e_out_physics_kwh |-> es[i].e_out_physics_kwh,
         e_out_sample_kwh |-> es[i].e_out_sample_kwh]] :
     ds \in {x \in [1..ProfitRows -> ProfitDates] :
               \A i \in 1..(ProfitRows - 1) : DateLe(x[i], x[i + 1])},
     es \in [1..ProfitRows -> RowEnergies],
     ps \in [1..ProfitRows -> {R(3, 10), R(6, 5), None}]}

InitProfit ==
    \E rows \in ProfitFrames, f \in Formulas :
        FunctionInit([fn |-> "compute_profit_summary_step15", rows |-> rows,
                      energy_formula |-> f, result |-> None])

CallComputeProfitSummary ==
    /\ pc = "call" /\ call.fn = "compute_profit_summary_step15"
    /\ pc' = "return"
    /\ call' = [call EXCEPT !.result =
                  compute_profit_summary_step15(call.rows, call.energy_formula)]
    /\ UNCHANGED Pipeline

NextProfit == CallComputeProfitSummary

SpecProfit == InitProfit /\ [][NextProfit]_vars

ProfitKeys == {"revenue", "cost", "profit", "discharge_energy_kwh", "charge_energy_kwh"}

\* the sum of one key of the day entries of the dates ds under formula f
RECURSIVE SumOfDays(_, _, _)
SumOfDays(ds, f, k) ==
    IF ds = {} THEN Zero
    ELSE LET d == CHOOSE x \in ds : TRUE
         IN  RAdd(call.result.days[d][f][k], SumOfDays(ds \ {d}, f, k))

\* the energy of the rows of date d that carry a price, times the price
RECURSIVE PricedEnergy(_, _, _, _)
PricedEnergy(i, d, f, out) ==
    IF i > Len(call.rows) THEN Zero
    ELSE LET r == call.rows[i]
             g == IF f = "main" THEN MainFormula(call.energy_formula) ELSE f
             e == IF out THEN EOut(r, g) ELSE EIn(r, g)
         IN  RAdd(IF r.date = d /\ r.price # None THEN RMul(e, r.price) ELSE Zero,
                  PricedEnergy(i + 1, d, f, out))

ConsistentEntry(m) ==
    /\ m.profit = RSub(m.revenue, m.cost)
    /\ m.profit_per_kwh = IF m.discharge_energy_kwh = Zero THEN Zero
                          ELSE RDiv(m.profit, m.discharge_energy_kwh)

\* C18: for every formula, every day, month and year entry has
\* profit = revenue - cost and profit_per_kwh = profit / discharge energy (0 when
\* the discharge energy is 0); a month's sums are the sums of its days and the
\* year's sums the sums of all days; a point without a price adds 0 to revenue
\* and to cost.
C18_ProfitRollUp ==
    Returned("compute_profit_summary_step15") =>
        LET res == call.result
            all == DOMAIN res.days
        IN  \A f \in {"physics", "sample", "main"} :
              /\ \A d \in all :
                    /\ ConsistentEntry(res.days[d][f])
                    /\ res.days[d][f].revenue = PricedEnergy(1, d, f, TRUE)
                    /\ res.days[d][f].cost = PricedEnergy(1, d, f, FALSE)
              /\ DOMAIN res.months = {YearMonth(d) : d \in all}
              /\ \A ym \in DOMAIN res.months :
                    /\ ConsistentEntry(res.months[ym][f])
                    /\ \A k \in ProfitKeys :
                          res.months[ym][f][k] =
                             SumOfDays({d \in all : YearMonth(d) = ym}, f, k)
              /\ ConsistentEntry(res.year[f])
              /\ \A k \in ProfitKeys : res.year[f][k] = SumOfDays(all, f, k)

\* two days of January and one of February, a discharging row without a price,
\* and a day without discharge
C18_Witness ==
    /\ Returned("compute_profit_summary_step15")
    /\ DOMAIN call.result.days = ProfitDates
    /\ \E i \in 1..Len(call.rows) :
          call.rows[i].price = None /\ RPos(call.rows[i].e_out_physics_kwh)
    /\ \E d \in ProfitDates :
          /\ call.result.days[d]["main"].discharge_energy_kwh = Zero
          /\ RPos(call.result.days[d]["main"].cost)
    /\ RPos(call.result.year["main"].revenue)

-----------------------------------------------------------------------------
(* Economics: build_cashflows, compute_static_payback.                     *)

\* round(x, 2): the nearest multiple of 0.01, a tie going to the even one
Round2(x) ==
    LET n == x[1] * 100
        q == n \div x[2]
        rem == n - q * x[2]
    IN  IF 2 * rem < x[2] THEN R(q, 100)
        ELSE IF 2 * rem > x[2] THEN R(q + 1, 100)
        ELSE IF q % 2 = 0 THEN R(q, 100) ELSE R(q + 1, 100)

RECURSIVE RPow(_, _)
RPow(x, n) == IF n = 0 THEN One ELSE RMul(x, RPow(x, n - 1))

\* a revenue whose phase counts its first year twice
YearRevenueOneYearOn(current_base_revenue, first_year_decay_rate, subsequent_decay_rate, years_in_phase) ==
    RMul(RMul(current_base_revenue, RSub(One, first_year_decay_rate)),
         RPow(RSub(One, subsequent_decay_rate), years_in_phase + 1))

YearRevenue(current_base_revenue, first_year_decay_rate, subsequent_decay_rate, years_in_phase) ==
    RMul(RMul(current_base_revenue, RSub(One, first_year_decay_rate)),
         RPow(RSub(One, subsequent_decay_rate), years_in_phase))

\* the loop of build_cashflows from year t on; a holds the arguments, a
\* cell_replacement_year of 0 stands for None
RECURSIVE CashflowLoop(_, _, _, _, _, _)
CashflowLoop(a, t, current_base_revenue, phase_start_year, cumulative, cashflows) ==
    IF t > a.project_years THEN cashflows
    ELSE LET replaced == a.cell_replacement_year # 0 /\ t = a.cell_replacement_year
             base == IF replaced
                     THEN (IF a.second_phase_first_year_revenue = None
                           THEN a.first_year_revenue
                           ELSE a.second_phase_first_year_revenue)
                     ELSE current_base_revenue
             start == IF replaced THEN t ELSE phase_start_year
             replacement == IF replaced THEN OrDefault(a.cell_replacement_cost, Zero)
                            ELSE Zero
             year_revenue == YearRevenue(base, a.first_year_decay_rate,
                                         a.subsequent_decay_rate, t - start)
             net_cf == RSub(RSub(year_revenue, a.annual_om_cost), replacement)
         IN  CashflowLoop(a, t + 1, base, start, RAdd(cumulative, net_cf),
                 Append(cashflows,
                        [year_index |-> t,
                         year_revenue |-> Round2(year_revenue),
                         annual_om_cost |-> Round2(a.annual_om_cost),
                         cell_replacement_cost |-> Round2(replacement),
                         net_cashflow |-> Round2(net_cf),
                         cumulative_net_cashflow |-> Round2(RAdd(cumulative, net_cf))]))

build_cashflows(a) == CashflowLoop(a, 1, a.first_year_revenue, 1, Zero, <<>>)

\* an interpolation that forgets what earlier years paid back
InterpolateFromZero(year_idx, prev_cumulative, capex_total, net_cashflow) ==
    Round2(RAdd(R(year_idx - 1, 1), RDiv(capex_total, net_cashflow)))

\* round(year_idx - 1 + shortfall / cf.net_cashflow, 2)
Interpolate(year_idx, prev_cumulative, capex_total, net_cashflow) ==
    Round2(RAdd(R(year_idx - 1, 1),
                RDiv(RSub(capex_total, prev_cumulative), net_cashflow)))

\* the loop of compute_static_payback from item i on
RECURSIVE PaybackLoop(_, _, _, _)
PaybackLoop(cashflows, capex_total, i, prev_cumulative) ==
    IF i > Len(cashflows) THEN None
    ELSE LET cf == cashflows[i]
             cumulative == RAdd(prev_cumulative, cf.net_cashflow)
         IN  IF RGe(cumulative, capex_total)
             THEN (IF RPos(cf.net_cashflow)
                   THEN Interpolate(cf.year_index, prev_cumulative, capex_total,
                                    cf.net_cashflow)
                   ELSE R(cf.year_index, 1))
             ELSE PaybackLoop(cashflows, capex_total, i + 1, cumulative)

compute_static_payback(cashflows, capex_total) ==
    IF RLe(capex_total, Zero) THEN Zero
    ELSE PaybackLoop(cashflows, capex_total, 1, Zero)

-----------------------------------------------------------------------------
(* build_cashflows and compute_static_payback on short projects.           *)

CashYears == 4
PaybackYears == 5

CashflowArgs ==
    [first_year_revenue : {One, R(100, 1)},
     project_years : 0..CashYears,
     annual_om_cost : {Zero, R(1, 5)},
     first_year_decay_rate : {Zero, R(1, 10)},
     subsequent_decay_rate : {Zero, R(1, 10), R(1, 5)},
     cell_replacement_year : {0, 1, 2, 3},
     cell_replacement_cost : {None, R(50, 1)},
     second_phase_first_year_revenue : {None, R(2, 1)}]

PaybackNets == {R(-100000, 1), R(100000, 1), R(300000, 1)}

PaybackCashflows ==
    UNION {{[i \in 1..n |-> [year_index |-> i, net_cashflow |-> nets[i]]] :
              nets \in [1..n -> PaybackNets]} : n \in 0..PaybackYears}

PaybackCapex == {R(-1, 1), Zero, R(1000, 1), R(250000, 1), R(500000, 1)}

InitEcon ==
    \/ \E a \in CashflowArgs :
          FunctionInit([fn |-> "build_cashflows", args |-> a, result |-> None])
    \/ \E cfs \in PaybackCashflows, capex \in PaybackCapex :
          FunctionInit([fn |-> "compute_static_payback", cashflows |-> cfs,
                        capex_total |-> capex, result |-> None])

CallBuildCashflows ==
    /\ pc = "call" /\ call.fn = "build_cashflows"
    /\ pc' = "return"
    /\ call' = [call EXCEPT !.result = build_cashflows(call.args)]
    /\ UNCHANGED Pipeline

CallComputeStaticPayback ==
    /\ pc = "call" /\ call.fn = "compute_static_payback"
    /\ pc' = "return"
    /\ call' = [call EXCEPT !.result =
                  compute_static_payback(call.cashflows, call.capex_total)]
    /\ UNCHANGED Pipeline

NextEcon ==
    \/ CallBuildCashflows
    \/ CallComputeStaticPayback

SpecEcon == InitEcon /\ [][NextEcon]_vars

\* the replacement happens in year t or earlier
Replaced(t) == call.args.cell_replacement_year \in 1..t

PhaseStart(t) == IF Replaced(t) THEN call.args.cell_replacement_year ELSE 1

PhaseBase(t) ==
    IF Replaced(t) /\ call.args.second_phase_first_year_revenue # None
    THEN call.args.second_phase_first_year_revenue
    ELSE call.args.first_year_revenue

\* phase_base * (1 - first_year_decay_rate) * (1 - subsequent_decay_rate)^(t - phase_start)
ExactRevenue(t) ==
    RMul(RMul(PhaseBase(t), RSub(One, call.args.first_year_decay_rate)),
         RPow(RSub(One, call.args.subsequent_decay_rate), t - PhaseStart(t)))

ExactReplacement(t) ==
    IF call.args.cell_replacement_year = t /\ call.args.cell_replacement_cost # None
    THEN call.args.cell_replacement_cost ELSE Zero

ExactNet(t) == RSub(RSub(ExactRevenue(t), call.args.annual_om_cost), ExactReplacement(t))

RECURSIVE ExactCumulative(_)
ExactCumulative(t) == IF t = 0 THEN Zero ELSE RAdd(ExactCumulative(t - 1), ExactNet(t))

\* the running sum of the net cash flows of the returned items
RECURSIVE ItemCumulative(_)
ItemCumulative(t) ==
    IF t = 0 THEN Zero
    ELSE RAdd(ItemCumulative(t - 1), call.result[t].net_cashflow)

\* y is x rounded to a multiple of 0.01
IsRounded(y, x) ==
    /\ (y[1] * 100) % y[2] = 0
    /\ RLe(RAbs(RSub(y, x)), R(1, 200))

\* C19 as stated: project_years items with year_index 1..N, whose revenue is
\* phase_base * (1 - first_year_decay_rate) * (1 - subsequent_decay_rate)^(t - phase_start),
\* whose net cash flow is revenue - O&M - replacement cost, and whose
\* cumulative_net_cashflow is the running sum of the net cash flows.
C19_CashflowsExact ==
    Returned("build_cashflows") =>
        /\ Len(call.result) = call.args.project_years
        /\ \A t \in 1..Len(call.result) :
              /\ call.result[t].year_index = t
              /\ call.result[t].year_revenue = ExactRevenue(t)
              /\ call.result[t].net_cashflow =
                    RSub(RSub(call.result[t].year_revenue, call.result[t].annual_om_cost),
                         call.result[t].cell_replacement_cost)
              /\ call.result[t].cell_replacement_cost = ExactReplacement(t)
              /\ call.result[t].cumulative_net_cashflow = ItemCumulative(t)

\* C19 amended: project_years items with year_index 1..N; the revenue, the net
\* cash flow and the cumulative net cash flow of year t are the values of the
\* stated formulas, computed without rounding, each rounded to two decimals.
C19_CashflowsRounded ==
    Returned("build_cashflows") =>
        /\ Len(call.result) = call.args.project_years
        /\ \A t \in 1..Len(call.result) :
              /\ call.result[t].year_index = t
              /\ IsRounded(call.result[t].year_revenue, ExactRevenue(t))
              /\ IsRounded(call.result[t].cell_replacement_cost, ExactReplacement(t))
              /\ IsRounded(call.result[t].net_cashflow, ExactNet(t))
              /\ IsRounded(call.result[t].cumulative_net_cashflow, ExactCumulative(t))

\* four years with a replacement in year 2 that changes the base, and a year
\* whose revenue is not a multiple of 0.01
C19_Witness ==
    /\ Returned("build_cashflows")
    /\ call.args.project_years = CashYears
    /\ call.args.cell_replacement_year = 2
    /\ call.args.second_phase_first_year_revenue # None
    /\ call.args.cell_replacement_cost # None
    /\ \E t \in 3..Len(call.result) : call.result[t].year_revenue # ExactRevenue(t)
    /\ call.result[2].year_revenue # call.result[1].year_revenue

\* the net cash flows of the first k items added up
RECURSIVE CumNet(_)
CumNet(k) == IF k = 0 THEN Zero ELSE RAdd(CumNet(k - 1), call.cashflows[k].net_cashflow)

\* the years at whose end the cumulative net cash flow has reached capex
ReachedYears == {k \in 1..Len(call.cashflows) : RGe(CumNet(k), call.capex_total)}

FirstReached == CHOOSE k \in ReachedYears : \A j \in ReachedYears : k <= j

\* (k - 1) + (capex - cumulative_{k-1}) / net_cashflow_k
ExactPayback(k) ==
    RAdd(R(k - 1, 1),
         RDiv(RSub(call.capex_total, CumNet(k - 1)), call.cashflows[k].net_cashflow))

\* C20 as stated: with capex > 0 the result is None when the cumulative net
\* cash flow never reaches capex; otherwise, with k the first year that reaches
\* it, the result is (k - 1) + (capex - cumulative_{k-1}) / net_cashflow_k, in
\* (k - 1, k], and exactly k when the cumulative equals capex at the end of
\* year k.  With capex <= 0 the result is 0.
C20_PaybackExact ==
    Returned("compute_static_payback") =>
        IF RLe(call.capex_total, Zero) THEN call.result = Zero
        ELSE IF ReachedYears = {} THEN call.result = None
        ELSE LET k == FirstReached
             IN  /\ call.result = ExactPayback(k)
                 /\ RLt(R(k - 1, 1), call.result) /\ RLe(call.result, R(k, 1))
                 /\ CumNet(k) = call.capex_total => call.result = R(k, 1)

\* C20 amended: as stated, but the result is the interpolated value rounded to
\* two decimals, and lies in [k - 1, k].
C20_PaybackRounded ==
    Returned("compute_static_payback") =>
        IF RLe(call.capex_total, Zero) THEN call.result = Zero
        ELSE IF ReachedYears = {} THEN call.result = None
        ELSE LET k == FirstReached
             IN  /\ call.result # None
                 /\ IsRounded(call.result, ExactPayback(k))
                 /\ RLe(R(k - 1, 1), call.result) /\ RLe(call.result, R(k, 1))
                 /\ CumNet(k) = call.capex_total => call.result = R(k, 1)

\* capex 1,000 paid back by 300,000 in the first year: the interpolated
\* 0.0033... is returned as 0
C20_Witness ==
    /\ Returned("compute_static_payback")
    /\ call.capex_total = R(1000, 1)
    /\ call.cashflows # <<>>
    /\ call.cashflows[1].net_cashflow = R(300000, 1)
    /\ ExactPayback(1) = R(1, 300)
    /\ call.result = Zero

-----------------------------------------------------------------------------
(* Economics: compute_irr and _irr_bisection, one loop iteration per step. *)

\* round(x, 6), digit by digit: q counts the multiples of 10^-k below the
\* fractional part, rem / d is what is left of it
RECURSIVE Round6Digits(_, _, _, _)
Round6Digits(q, rem, d, k) ==
    IF k = 0
    THEN (IF 2 * rem < d THEN q
          ELSE IF 2 * rem > d THEN q + 1
          ELSE IF q % 2 = 0 THEN q ELSE q + 1)
    ELSE Round6Digits(q * 10 + ((rem * 10) \div d), (rem * 10) % d, d, k - 1)

Round6(x) ==
    LET whole == x[1] \div x[2]
    IN  RAdd(R(whole, 1), R(Round6Digits(0, x[1] - whole * x[2], x[2], 6), E6))

\* [CF0, CF1, ..., CFn]
CfList(cashflows, capex_total) ==
    <<RNeg(capex_total)>> \o [i \in 1..Len(cashflows) |-> cashflows[i].net_cashflow]

\* sum over t of cf_list[t] / (1 + r)^t, t counted from 0
npv(cf_list, r) ==
    SumSeq([i \in 1..Len(cf_list) |-> RDiv(cf_list[i], RPow(RAdd(One, r), i - 1))])

\* minus the sum over t > 0 of t * cf_list[t] / (1 + r)^(t + 1)
npv_derivative(cf_list, r) ==
    RNeg(SumSeq([i \in 1..Len(cf_list) |->
                   IF i = 1 THEN Zero
                   ELSE RDiv(RMul(R(i - 1, 1), cf_list[i]), RPow(RAdd(One, r), i))]))

\* abs(x) < 1e-6 and abs(x) < 1e-12
LtTolerance(x) == Abs(x[1]) <= (x[2] - 1) \div E6
LtDerivEps(x) == Abs(x[1]) <= ((x[2] - 1) \div E6) \div E6

\* x * y < 0 and x * y > 0, by the signs
ProductNeg(x, y) == (x[1] < 0 /\ y[1] > 0) \/ (x[1] > 0 /\ y[1] < 0)
ProductPos(x, y) == (x[1] < 0 /\ y[1] < 0) \/ (x[1] > 0 /\ y[1] > 0)

\* r_new held in [-0.99, 10.0]
ClampRate(r_new) ==
    IF RLt(r_new, R(-99, 100)) THEN R(-99, 100)
    ELSE IF RGt(r_new, R(10, 1)) THEN R(10, 1) ELSE r_new

\* one pass of the Newton loop at rate r: what the pass does, the Newton step
\* before the clamp, and the rate after it
NewtonPass(cf_list, r) ==
    LET npv_val == npv(cf_list, r)
        deriv == npv_derivative(cf_list, r)
    IN  IF LtTolerance(npv_val)
        THEN [does |-> "return", rate |-> Round6(r), raw |-> r]
        ELSE IF LtDerivEps(deriv)
        THEN [does |-> "break", rate |-> r, raw |-> r]
        ELSE LET raw == RSub(r, RDiv(npv_val, deriv))
                 r_new == ClampRate(raw)
             IN  IF LtTolerance(RSub(r_new, r))
                 THEN [does |-> "return", rate |-> Round6(r_new), raw |-> raw]
                 ELSE [does |-> "continue", rate |-> r_new, raw |-> raw]

\* one pass of the bisection loop on [low, high]
BisectPass(cf_list, low, high, npv_low) ==
    LET mid == RMul(RAdd(low, high), R(1, 2))
        npv_mid == npv(cf_list, mid)
        left == ProductNeg(npv_mid, npv_low)
        low1 == IF left THEN low ELSE mid
        high1 == IF left THEN mid ELSE high
    IN  IF LtTolerance(npv_mid)
        THEN [does |-> "return", rate |-> Round6(mid), low |-> low, high |-> high,
              npv_low |-> npv_low]
        ELSE IF LtTolerance(RSub(high1, low1))
        THEN [does |-> "return", rate |-> Round6(RMul(RAdd(low1, high1), R(1, 2))),
              low |-> low1, high |-> high1, npv_low |-> IF left THEN npv_low ELSE npv_mid]
        ELSE [does |-> "continue", rate |-> None, low |-> low1, high |-> high1,
              npv_low |-> IF left THEN npv_low ELSE npv_mid]

-----------------------------------------------------------------------------
(* compute_irr on one-year cash-flow lists with few iterations allowed.    *)

\* <<net cash flow of the year, capex, largest max_iterations>>: the exact
\* iterates of the cases with fewer passes leave the integer range later on
IrrCases ==
    {<<n, 1, 3>> : n \in {-1, 0, 1, 11}}
    \cup {<<n, 10, 3>> : n \in {-1, 1, 2, 11}}
    \cup {<<n, 1000, 3>> : n \in {-1, 0, 1}}
    \cup {<<1, 2, 3>>, <<1, 200, 3>>}
    \cup {<<2, 1, 2>>, <<20, 1, 2>>, <<3, 1, 2>>, <<3, 2, 2>>}
    \cup {<<301, 200, 1>>, <<301, 1, 1>>}

IrrCall(cfs, capex, m) ==
    [fn |-> "compute_irr", cashflows |-> cfs, capex_total |-> capex,
     max_iterations |-> m, result |-> None, by |-> NoKind,
     r |-> None, raw |-> None, newton_passes |-> 0,
     bisection_passes |-> 0, low |-> None, high |-> None,
     npv_low |-> None, npv_high |-> None]

InitIrr ==
    \/ \E c \in IrrCases, m \in 1..3 :
          /\ m <= c[3]
          /\ FunctionInit(IrrCall(<<[year_index |-> 1, net_cashflow |-> R(c[1], 1)]>>,
                                  R(c[2], 1), m))
    \/ \E m \in 1..3 : FunctionInit(IrrCall(<<>>, One, m))
    \/ \E m \in 1..3 :
          FunctionInit(IrrCall(<<[year_index |-> 1, net_cashflow |-> One]>>, Zero, m))

\* the guard of compute_irr and its initial guess
IrrBegin ==
    /\ pc = "call" /\ call.fn = "compute_irr"
    /\ IF call.cashflows = <<>> \/ RLe(call.capex_total, Zero)
       THEN pc' = "return" /\ call' = call
       ELSE pc' = "newton" /\ call' = [call EXCEPT !.r = R(1, 10)]
    /\ UNCHANGED Pipeline

\* one pass of `for _ in range(max_iterations)` of compute_irr
IrrNewtonPass ==
    /\ pc = "newton"
    /\ \E p \in {NewtonPass(CfList(call.cashflows, call.capex_total), call.r)} :
          \E n \in {call.newton_passes + 1} :
             /\ call' = [call EXCEPT
                           !.newton_passes = n,
                           !.raw = p.raw,
                           !.r = IF p.does = "continue" THEN p.rate ELSE call.r,
                           !.result = IF p.does = "return" THEN p.rate ELSE None,
                           !.by = IF p.does = "return" THEN "newton" ELSE NoKind]
             /\ pc' = IF p.does = "return" THEN "return"
                      ELSE IF p.does = "break" \/ n = call.max_iterations
                      THEN "bisection_begin" ELSE "newton"
    /\ UNCHANGED Pipeline

\* the bracket of _irr_bisection and its sign test
IrrBisectionBegin ==
    /\ pc = "bisection_begin"
    /\ \E cf_list \in {CfList(call.cashflows, call.capex_total)} :
       \E lo \in {npv(cf_list, R(-99, 100))}, hi \in {npv(cf_list, R(2, 1))} :
          /\ call' = [call EXCEPT !.low = R(-99, 100), !.high = R(2, 1),
                                  !.npv_low = lo, !.npv_high = hi]
          /\ pc' = IF ProductPos(lo, hi) THEN "return" ELSE "bisection"
    /\ UNCHANGED Pipeline

\* one pass of `for _ in range(max_iterations)` of _irr_bisection
IrrBisectionPass ==
    /\ pc = "bisection"
    /\ \E p \in {BisectPass(CfList(call.cashflows, call.capex_total),
                            call.low, call.high, call.npv_low)} :
          \E n \in {call.bisection_passes + 1} :
             /\ call' = [call EXCEPT
                           !.bisection_passes = n,
                           !.low = p.low, !.high = p.high, !.npv_low = p.npv_low,
                           !.result = p.rate,
                           !.by = IF p.does = "return" THEN "bisection" ELSE NoKind]
             /\ pc' = IF p.does = "return" \/ n = call.max_iterations
                      THEN "return" ELSE "bisection"
    /\ UNCHANGED Pipeline

NextIrr ==
    \/ IrrBegin
    \/ IrrNewtonPass
    \/ IrrBisectionBegin
    \/ IrrBisectionPass

SpecIrr == InitIrr /\ [][NextIrr]_vars

IrrCfList == CfList(call.cashflows, call.capex_total)

\* C21: for capex > 0 and a non-empty list, compute_irr makes at most
\* max_iterations Newton passes and then at most max_iterations bisection
\* passes; a rate comes out of the Newton loop only when Newton's method has
\* converged within tolerance (the NPV at the rate, or the Newton step from it,
\* is below 1e-6); otherwise the result is that of the bisection on
\* [-0.99, 2.0], which is None when the NPV has the same sign at both ends.
C21_IrrConvergedOrBisection ==
    (call # None /\ call.fn = "compute_irr" /\ call.cashflows # <<>>
     /\ RPos(call.capex_total)) =>
        /\ call.newton_passes <= call.max_iterations
        /\ call.bisection_passes <= call.max_iterations
        /\ (call.bisection_passes > 0 \/ call.low # None) =>
              (pc = "return" => call.by # "newton")
        /\ (pc = "return" /\ call.by = "newton") =>
              \/ LtTolerance(npv(IrrCfList, call.r))
              \/ LtTolerance(RSub(call.raw, call.r))
        /\ (pc = "return" /\ call.by # "newton") =>
              /\ call.low # None
              /\ ProductPos(npv(IrrCfList, R(-99, 100)), npv(IrrCfList, R(2, 1)))
                    => call.result = None

-----------------------------------------------------------------------------
(* compute_window_avg_days beside compute_window_avg_days_with_debug.      *)

\* a call that ended in an exception instead of a return value
Raised(exc) == [raised |-> exc]

\* its fifth statement reads effective_dod, a name the function never binds and
\* the module does not define
compute_window_avg_days(series, masks_by_date, cfg, li, formula) == Raised("NameError")

\* the arguments the cycles endpoint would pass for one day of points
InitWindowAvg ==
    \E cfg \in StorageConfigs, formula \in Formulas, m \in Meterings,
       f \in [1..NumPoints -> HourInputs] :
        \E s \in {[i \in 1..NumPoints |->
                     [date |-> Date1, hour |-> HourOfPoint(i), load_kw |-> f[i].load_kw]]} :
            FunctionInit([fn |-> "compute_window_avg_days", series_15m |-> s,
                          daily_masks |-> build_daily_cycles_masks(
                                              (Date1 :> OpsOfDay(f)),
                                              cfg.merge_threshold_minutes, TRUE),
                          storage_cfg |-> cfg,
                          limit_info |-> compute_limit_info(s, m.mode, m.kva, m.pf),
                          energy_formula |-> formula,
                          result |-> None, with_debug |-> None])

CallComputeWindowAvgDaysWithDebug ==
    /\ pc = "call" /\ call.fn = "compute_window_avg_days"
    /\ pc' = "plain"
    /\ call' = [call EXCEPT !.with_debug =
                  compute_window_avg_days_with_debug(call.series_15m, call.daily_masks,
                                                     call.storage_cfg, call.limit_info,
                                                     call.energy_formula)]
    /\ UNCHANGED Pipeline

CallComputeWindowAvgDays ==
    /\ pc = "plain" /\ call.fn = "compute_window_avg_days"
    /\ pc' = "return"
    /\ call' = [call EXCEPT !.result =
                  compute_window_avg_days(call.series_15m, call.daily_masks,
                                          call.storage_cfg, call.limit_info,
                                          call.energy_formula)]
    /\ UNCHANGED Pipeline

NextWindowAvg == CallComputeWindowAvgDaysWithDebug \/ CallComputeWindowAvgDays

SpecWindowAvg == InitWindowAvg /\ [][NextWindowAvg]_vars

\* C22: on identical inputs compute_window_avg_days and
\* compute_window_avg_days_with_debug both return normally, and the list of day
\* entries of the first equals the day entries of the second, whatever the
\* limit and the capacity of the day.
C22_SameDayEntries ==
    Returned("compute_window_avg_days") =>
        /\ call.result # Raised("NameError")
        /\ call.result = call.with_debug[1]

-----------------------------------------------------------------------------
(* build_step15_power_series with filter_date, beside the unfiltered run   *)
(* of the same request: prev_run keeps the unfiltered run.                 *)

FilterPoints == 2

Date2 == <<1, 2>>
Date3 == <<1, 3>>

FilterDays == <<Date1, Date2>>

FilterHourInputs ==
    {[op |-> OP_CHARGE, load_kw |-> R(0, 1)], [op |-> OP_DISCHARGE, load_kw |-> R(180, 1)],
     [op |-> OP_STANDBY, load_kw |-> R(0, 1)]}

FilterStorageConfigs ==
    {BaseStorage,
     [BaseStorage EXCEPT !.depth_of_discharge = None, !.soc_min = R(2, 5),
                         !.soc_max = R(3, 5), !.initial_soc = One]}

\* point i of the two days: FilterPoints points a day, at the hours 0, 1, 3, ...
FilterDayOf(i) == FilterDays[((i - 1) \div FilterPoints) + 1]
FilterHourOf(i) == HourOfPoint(((i - 1) % FilterPoints) + 1)

FilterOpsOfDay(f, d) ==
    [h \in 1..HoursPerDay |->
        IF \E i \in DOMAIN f : FilterDayOf(i) = d /\ FilterHourOf(i) = h - 1
        THEN f[CHOOSE i \in DOMAIN f : FilterDayOf(i) = d /\ FilterHourOf(i) = h - 1].op
        ELSE OP_STANDBY]

InitFilter ==
    /\ pc = "limit"
    /\ storage_cfg \in FilterStorageConfigs
    /\ energy_formula \in Formulas
    /\ metering \in Meterings
    /\ \E f \in [1..(2 * FilterPoints) -> FilterHourInputs] :
          /\ series_15m = [i \in 1..(2 * FilterPoints) |->
                             [date |-> FilterDayOf(i), hour |-> FilterHourOf(i),
                              load_kw |-> f[i].load_kw]]
          /\ daily_ops = (Date1 :> FilterOpsOfDay(f, Date1))
                            @@ (Date2 :> FilterOpsOfDay(f, Date2))
    /\ price_series = [i \in 1..(2 * FilterPoints) |-> PriceOfHour(FilterHourOf(i))]
    /\ limit_info = None
    /\ daily_masks = None
    /\ days = None
    /\ window_debug = None
    /\ window_targets = None
    /\ window_state = <<>>
    /\ current_soc = None
    /\ idx = 0
    /\ records = <<>>
    /\ trace = NoTrace
    /\ profit = None
    /\ prev_run = None
    /\ stored_snapshot = None
    /\ call = None

\* the indices of the points of the date, in order
RECURSIVE OnDate(_, _, _)
OnDate(series, date, i) ==
    IF i > Len(series) THEN <<>>
    ELSE (IF series[i].date = date THEN <<i>> ELSE <<>>) \o OnDate(series, date, i + 1)

\* the second call: the series and the prices cut down to filter_date, the
\* window targets rebuilt from the same window_debug, window state and SOC fresh
FilterBegin ==
    /\ pc = "sim" /\ idx > Len(series_15m) /\ prev_run = None
    /\ \E filter_date \in {Date1, Date2, Date3} :
       \E keep \in {OnDate(series_15m, filter_date, 1)} :
          /\ call' = [fn |-> "build_step15_power_series", filter_date |-> filter_date]
          /\ series_15m' = [k \in 1..Len(keep) |-> series_15m[keep[k]]]
          /\ price_series' = [k \in 1..Len(keep) |-> price_series[keep[k]]]
          /\ pc' = IF keep = <<>> THEN "return" ELSE "sim"
    /\ prev_run' = [records |-> records]
    /\ window_targets' = BuildTargets(window_debug, MainFormula(energy_formula), <<>>)
    /\ window_state' = <<>>
    /\ current_soc' = InitialSoc(storage_cfg)
    /\ idx' = 1
    /\ records' = <<>>
    /\ UNCHANGED <<storage_cfg, energy_formula, metering, daily_ops, limit_info,
                   daily_masks, days, window_debug, trace, profit,
                   stored_snapshot>>

\* the filtered call returns its frame
FilterReturn ==
    /\ pc = "sim" /\ idx > Len(series_15m) /\ prev_run # None
    /\ pc' = "return"
    /\ UNCHANGED <<storage_cfg, energy_formula, metering, series_15m, daily_ops,
                   price_series, limit_info, daily_masks, days, window_debug,
                   window_targets, window_state, current_soc, idx, records, trace,
                   profit, prev_run, call,
                   stored_snapshot>>

NextFilter ==
    \/ ComputeLimitInfo
    \/ BuildDailyCyclesMasks
    \/ ComputeWindowAvg
    \/ SimBegin
    \/ SimStep
    \/ FilterBegin
    \/ FilterReturn

SpecFilter == InitFilter /\ [][NextFilter]_vars

\* what the claim compares of a row: everything but load, price and SOC
FilterView(rec) ==
    [date |-> rec.date, hour |-> rec.hour, op |-> rec.op, p_batt_kw |-> rec.p_batt_kw,
     e_in_physics_kwh |-> rec.e_in_physics_kwh, e_out_physics_kwh |-> rec.e_out_physics_kwh,
     e_in_sample_kwh |-> rec.e_in_sample_kwh, e_out_sample_kwh |-> rec.e_out_sample_kwh,
     p_grid_effect_physics_kw |-> rec.p_grid_effect_physics_kw,
     p_grid_effect_sample_kw |-> rec.p_grid_effect_sample_kw,
     cum_charge_grid_main |-> rec.cum_charge_grid_main,
     cum_discharge_grid_main |-> rec.cum_discharge_grid_main,
     charge_target_grid_main |-> rec.charge_target_grid_main,
     discharge_target_grid_main |-> rec.discharge_target_grid_main]

FilteredDone == pc = "return" /\ call # None /\ call.fn = "build_step15_power_series"

UnfilteredRowsOfDate ==
    LET keep == OnDate(prev_run.records, call.filter_date, 1)
    IN  [k \in 1..Len(keep) |-> FilterView(prev_run.records[keep[k]])]

\* C23: the rows a run with filter_date = D produces carry the same op, battery
\* power, four energies, two grid-effect powers and per-window cumulative totals
\* and targets as the rows of D in the unfiltered run of the same request.
C23_FilterIsPreFilter ==
    FilteredDone =>
        [k \in 1..Len(records) |-> FilterView(records[k])] = UnfilteredRowsOfDate

\* the second day is asked for, the first day moved the SOC, and the second day
\* has a row with energy counted against a window
C23_Witness ==
    /\ FilteredDone /\ call.filter_date = Date2
    /\ \E k \in 1..Len(prev_run.records) :
          /\ prev_run.records[k].date = Date1
          /\ prev_run.records[k].p_batt_kw # Zero
    /\ \E k \in 1..Len(records) :
          /\ records[k].cum_charge_grid_main # None
          /\ RPos(records[k].cum_charge_grid_main)
    /\ records[1].soc # prev_run.records[FilterPoints + 1].soc

-----------------------------------------------------------------------------
(* Local sync: POST /api/local-sync/snapshot over the snapshot file.       *)

MaxStamp == 3
MaxPosts == 3

\* values of the exported_at key: absent, not a string, blank, not ISO 8601,
\* or an ISO time of a day, written without an offset or with "Z"
NoStamp == [kind |-> "absent"]
RawStamps ==
    {NoStamp, [kind |-> "number"], [kind |-> "blank"], [kind |-> "garbage"]}
        \cup {[kind |-> "iso", day |-> d, z |-> z] : d \in 1..MaxStamp, z \in BOOLEAN}

\* a datetime (day, tzinfo set or not), or None
_parse_dt(value) ==
    IF value.kind \in {"absent", "number", "blank"} THEN NoneDict
    ELSE IF value.kind = "garbage" THEN NoneDict
    ELSE [day |-> value.day, aware |-> value.z]

\* snapshot objects: the exported_at key and the rest of the content
Snapshots == {[exported_at |-> e, data |-> d] : e \in RawStamps, d \in {"a", "b"}}

\* a JSON value that is not an object
NotAnObject == [not_object |-> TRUE]

\* request bodies: the snapshot itself, the snapshot under the key "snapshot",
\* or an object whose "snapshot" key holds something that is not an object
Bodies ==
    Snapshots
        \cup {[snapshot |-> s] : s \in Snapshots}
        \cup {[snapshot |-> NotAnObject, exported_at |-> s.exported_at, data |-> s.data] :
                s \in Snapshots}

IsDict(x) == x # NotAnObject

\* body.get("snapshot") if it is an object, else the body; a body without
\* exported_at reads as one whose exported_at is absent
IncomingOf(body) ==
    IF "snapshot" \in DOMAIN body /\ IsDict(body.snapshot) THEN body.snapshot ELSE body

ExportedAt(snapshot) ==
    IF "exported_at" \in DOMAIN snapshot THEN snapshot.exported_at ELSE NoStamp

\* an offset-naive and an offset-aware datetime do not compare: >= raises TypeError
DtComparable(inc_ts, ex_ts) == inc_ts.aware = ex_ts.aware

\* [ok, reason], or the exception raised
should_accept_incoming(existing, incoming) ==
    LET inc_ts == _parse_dt(ExportedAt(incoming))
        ex_ts == _parse_dt(ExportedAt(existing))
    IN  IF inc_ts = NoneDict
        THEN [ok |-> FALSE, reason |-> "incoming snapshot missing exported_at"]
        ELSE IF existing = NoneDict
        THEN [ok |-> TRUE, reason |-> "no existing snapshot"]
        ELSE IF ex_ts = NoneDict
        THEN [ok |-> TRUE, reason |-> "existing snapshot missing exported_at"]
        ELSE IF ~DtComparable(inc_ts, ex_ts) THEN Raised("TypeError")
        ELSE IF inc_ts.day >= ex_ts.day
        THEN [ok |-> TRUE, reason |-> "incoming is newer or equal"]
        ELSE [ok |-> FALSE, reason |-> "incoming snapshot is older than existing"]

\* no file, or a file left by a writer that did not set exported_at
InitSync ==
    /\ pc = "serve"
    /\ stored_snapshot \in {NoneDict, [exported_at |-> NoStamp, data |-> "a"]}
    /\ call = [fn |-> "put_local_sync_snapshot", posts |-> 0, body |-> NoneDict,
               existing |-> NoneDict, status |-> 0, reason |-> ""]
    /\ storage_cfg = BaseStorage
    /\ energy_formula = "physics"
    /\ metering = [mode |-> "monthly_demand_max", kva |-> None, pf |-> None]
    /\ series_15m = <<>>
    /\ daily_ops = None
    /\ price_series = <<>>
    /\ limit_info = None
    /\ daily_masks = None
    /\ days = None
    /\ window_debug = None
    /\ window_targets = None
    /\ window_state = <<>>
    /\ current_soc = None
    /\ idx = 0
    /\ records = <<>>
    /\ trace = NoTrace
    /\ profit = None
    /\ prev_run = None

SyncFrame == <<pc, storage_cfg, energy_formula, metering, series_15m, daily_ops,
               price_series, limit_info, daily_masks, days, window_debug,
               window_targets, window_state, current_soc, idx, records, trace,
               profit, prev_run>>

\* one request, from the read of the file to the response
put_local_sync_snapshot ==
    /\ pc = "serve" /\ call.posts < MaxPosts
    /\ \E body \in Bodies :
       \E incoming \in {IncomingOf(body)}, existing \in {stored_snapshot} :
       \E verdict \in {should_accept_incoming(existing, incoming)} :
          /\ stored_snapshot' = IF "ok" \in DOMAIN verdict /\ verdict.ok
                                THEN incoming ELSE stored_snapshot
          /\ call' = [fn |-> "put_local_sync_snapshot", posts |-> call.posts + 1,
                      body |-> body, existing |-> existing,
                      status |-> IF "raised" \in DOMAIN verdict THEN 500
                                 ELSE IF verdict.ok THEN 200 ELSE 409,
                      reason |-> IF "raised" \in DOMAIN verdict THEN verdict.raised
                                 ELSE verdict.reason]
    /\ UNCHANGED SyncFrame

NextSync == put_local_sync_snapshot

SpecSync == InitSync /\ [][NextSync]_vars

Posted == call # None /\ call.fn = "put_local_sync_snapshot" /\ call.posts > 0

\* the order the claim speaks of: by day; two times of the same day, one with
\* and one without an offset, are not ordered
StrictlyOlder(a, b) == a.day < b.day
NewerOrEqual(a, b) == a.day > b.day \/ (a.day = b.day /\ a.aware = b.aware)

\* C24: after every POST: an incoming snapshot whose exported_at is missing or
\* unparsable was rejected and the file is unchanged; one strictly older than
\* a stored parsable exported_at was rejected with 409 and the file is
\* unchanged; one that is newer or equal (or meets no stored exported_at) is
\* now the stored snapshot; so the stored exported_at never decreases.
C24_LastWriterWins ==
    Posted =>
        LET incoming == IncomingOf(call.body)
            inc_ts == _parse_dt(ExportedAt(incoming))
            before == _parse_dt(ExportedAt(call.existing))
        IN  /\ inc_ts = NoneDict =>
                 call.status = 409 /\ stored_snapshot = call.existing
            /\ (inc_ts # NoneDict /\ before # NoneDict /\ StrictlyOlder(inc_ts, before)) =>
                 call.status = 409 /\ stored_snapshot = call.existing
            /\ (inc_ts # NoneDict /\ (before = NoneDict \/ NewerOrEqual(inc_ts, before))) =>
                 call.status = 200 /\ stored_snapshot = incoming
            /\ before # NoneDict =>
                 /\ _parse_dt(ExportedAt(stored_snapshot)) # NoneDict
                 /\ ~StrictlyOlder(_parse_dt(ExportedAt(stored_snapshot)), before)

-----------------------------------------------------------------------------
(* The grid-side conversions of _window_metrics and of the simulator's     *)
(* loop body, applied to the same base energy.                             *)

\* storage configurations: DOD configured below the SOC band; DOD left out with
\* a narrow band; DOD and band both left out
ConvStorageConfigs ==
    {[BaseStorage EXCEPT !.single_side_efficiency = eta, !.depth_of_discharge = b[1],
                         !.soc_min = b[2], !.soc_max = b[3]] :
        eta \in {R(1, 2), R(4, 5), One},
        b \in {<<R(1, 5), None, None>>, <<R(4, 5), R(1, 10), R(9, 10)>>,
               <<None, R(2, 5), R(3, 5)>>, <<None, None, None>>}}

\* allowed power of the window's single point, kW
ConvAllow == {R(0, 1), R(20, 1), R(40, 1), R(80, 1)}

InitConv ==
    \E cfg \in ConvStorageConfigs, allow \in ConvAllow, is_charge \in BOOLEAN :
        FunctionInit([fn |-> "_window_metrics", storage_cfg |-> cfg,
                      is_charge |-> is_charge,
                      load_kw |-> IF is_charge THEN R(20, 1) ELSE RAdd(allow, Zero),
                      limit_kw |-> IF is_charge THEN RAdd(allow, R(20, 1)) ELSE R(200, 1),
                      window_avg |-> None, step15 |-> None])

\* the calculator's window of one point at hour 0, under each formula
CallWindowMetrics ==
    /\ pc = "call" /\ call.fn = "_window_metrics"
    /\ \E day_sub \in {<<[date |-> Date1, hour |-> 0, load_kw |-> call.load_kw]>>} :
       \E mp \in {_window_metrics(day_sub, <<0>>, call.limit_kw, call.is_charge,
                                  call.storage_cfg, "physics")},
          ms \in {_window_metrics(day_sub, <<0>>, call.limit_kw, call.is_charge,
                                  call.storage_cfg, "sample")} :
          call' = [call EXCEPT !.window_avg = [base_kwh |-> mp.base_kwh,
                                               physics |-> mp.e_grid_kwh,
                                               sample |-> ms.e_grid_kwh]]
    /\ pc' = "step15"
    /\ UNCHANGED Pipeline

\* the simulator's conversion of the same point
CallGridEnergies ==
    /\ pc = "step15" /\ call.fn = "_window_metrics"
    /\ \E c \in {SimCfg(call.storage_cfg)} :
       \E pe \in {GridEnergies(BattPower(IF call.is_charge THEN OP_CHARGE ELSE OP_DISCHARGE,
                                         call.load_kw, call.limit_kw, c), c)} :
          call' = [call EXCEPT !.step15 =
                     [base_kwh |-> RMul(RAbs(pe.p_batt), dt_hours),
                      physics |-> IF call.is_charge THEN pe.e_in_phys ELSE pe.e_out_phys,
                      sample |-> IF call.is_charge THEN pe.e_in_sample
                                 ELSE pe.e_out_sample]]
    /\ pc' = "return"
    /\ UNCHANGED Pipeline

NextConv == CallWindowMetrics \/ CallGridEnergies

SpecConv == InitConv /\ [][NextConv]_vars

\* the factors of the two formulas: DOD/eta and eta/DOD for charge, DOD x eta
\* and 1/(DOD x eta) for discharge
PhysicsFactor(is_charge, DOD, eta) == IF is_charge THEN RDiv(DOD, eta) ELSE RMul(DOD, eta)
SampleFactor(is_charge, DOD, eta) ==
    IF is_charge THEN RDiv(eta, DOD) ELSE RDiv(One, RMul(DOD, eta))

\* C25: with DOD the usable depth of discharge (the configured one bounded by
\* the SOC band) and eta the efficiency, both in (0, 1]: the calculator and the
\* simulator turn the same base energy into base x DOD/eta (physics) and
\* base x eta/DOD (sample) when charging, base x DOD x eta and
\* base / (DOD x eta) when discharging, so that the sample conversion of the
\* physics result is the base energy again, and the two components use the
\* same four factors.
C25_ConversionsInverse ==
    Returned("_window_metrics") =>
        LET c == SimCfg(call.storage_cfg)
            fp == PhysicsFactor(call.is_charge, c.effective_dod, c.eta)
            fs == SampleFactor(call.is_charge, c.effective_dod, c.eta)
            w == call.window_avg
            s == call.step15
        IN  /\ w.base_kwh = s.base_kwh
            /\ w.physics = RMul(w.base_kwh, fp) /\ w.sample = RMul(w.base_kwh, fs)
            /\ s.physics = RMul(s.base_kwh, fp) /\ s.sample = RMul(s.base_kwh, fs)
            /\ RMul(w.physics, fs) = w.base_kwh /\ RMul(s.physics, fs) = s.base_kwh
            /\ RDiv(w.physics, fp) = w.base_kwh /\ RDiv(w.sample, fs) = w.base_kwh
            /\ w.physics = s.physics /\ w.sample = s.sample

-----------------------------------------------------------------------------
(* Window targets of the simulator against the calculator's trace.         *)

\* the smallest main-formula full ratio among the trace rows of a window
SmallestRatio(rows, key, main_formula) ==
    LET of_window == {i \in 1..Len(rows) : rows[i].date = key[1] /\ rows[i].window = key[2]}
        i == CHOOSE j \in of_window :
                \A k \in of_window : RLe(RowFullMain(rows[j], main_formula),
                                         RowFullMain(rows[k], main_formula))
    IN  RowFullMain(rows[i], main_formula)

\* C26: at every point that falls in a window (date, window) of the trace, with
\* r the smallest main-formula full ratio among the window's trace rows, the
\* window's targets are charge_target = capacity x r x DOD_effective / eta and
\* discharge_target = capacity x r x DOD_effective x eta; a window whose r is 0
\* has targets 0 and its points carry no charge and no discharge energy.
C26_TargetsFromTrace ==
    (pc = "sim" /\ records # <<>> /\ trace.win_key # NoKey) =>
        LET r == SmallestRatio(window_debug, trace.win_key, MainFormula(energy_formula))
            usable == RMul(RMul(Cfg.cap, r), Cfg.effective_dod)
        IN  /\ LastRecord.charge_target_grid_main = RDiv(usable, Cfg.eta)
            /\ LastRecord.discharge_target_grid_main = RMul(usable, Cfg.eta)
            /\ r = Zero =>
                  /\ MainIn(trace.final, MainFormula(energy_formula)) = Zero
                  /\ MainOut(trace.final, MainFormula(energy_formula)) = Zero

-----------------------------------------------------------------------------
(* The head/tail merge of _hour_runs_from_ops.                             *)

\* the runs of the day's scan, before the merge
ScannedRuns == RunsScan(call.ops, 0, <<>>, NoKind, <<>>)

HoursCovered(runs) == UNION {SeqSet(runs[i].hours) : i \in 1..Len(runs)}

\* first and last run are of one kind and meet at midnight
ContiguousAcrossMidnight(runs) ==
    /\ Len(runs) >= 2
    /\ runs[1].kind = runs[Len(runs)].kind
    /\ 0 \in SeqSet(runs[1].hours)
    /\ (HoursPerDay - 1) \in SeqSet(runs[Len(runs)].hours)

\* C27: with the wrap flag set, the first and the last run of the day are
\* joined into one run, in first place, only when they are of the same kind and
\* contiguous across midnight (the first run starts at hour 0 and the last ends
\* at hour 23); otherwise, and whenever the flag is clear, the runs are those
\* of the scan; the hours covered by the runs are the same either way.
C27_MergeAcrossMidnightOnly ==
    Returned("build_daily_cycles_masks") =>
        LET scan == ScannedRuns
            runs == CallRuns
        IN  /\ (call.wrap_across_midnight /\ ContiguousAcrossMidnight(scan)) =>
                  /\ Len(runs) = Len(scan) - 1
                  /\ runs[1].kind = scan[1].kind
                  /\ SeqSet(runs[1].hours) =
                        SeqSet(scan[1].hours) \cup SeqSet(scan[Len(scan)].hours)
                  /\ \A i \in 2..Len(runs) : runs[i] = scan[i]
            /\ ~(call.wrap_across_midnight /\ ContiguousAcrossMidnight(scan)) =>
                  runs = scan
            /\ HoursCovered(runs) = HoursCovered(scan)

-----------------------------------------------------------------------------
(* compute_profit_summary_step15 with discharge_strategy "price-priority", *)
(* beside the sequential summary of the same frame.                        *)

\* dict.get(key, default): the default only when the key is left out
GetOr(x, default) == IF x = None THEN default ELSE x

\* discharge_mask: the positions of the day's rows labelled discharge, in order
DischargeMask(day_rows) ==
    SortedSeq({i \in 1..Len(day_rows) : day_rows[i].op = OP_DISCHARGE})

\* the day's main-formula discharge column after the reallocation
ReallocatedEOut(day_rows, main_formula, cfg) ==
    LET at == DischargeMask(day_rows)
        e_in_day == SumSeq([i \in 1..Len(day_rows) |-> EIn(day_rows[i], main_formula)])
        max_discharge == RMul(RMul(e_in_day, GetOr(cfg.depth_of_discharge, R(9, 10))),
                              GetOr(cfg.single_side_efficiency, R(23, 25)))
        discharge_points == [k \in 1..Len(at) |->
                               [e_out_main_kwh |-> EOut(day_rows[at[k]], main_formula),
                                load_kw |-> day_rows[at[k]].load_kw,
                                price |-> day_rows[at[k]].price]]
        allocated == _allocate_discharge_by_price(discharge_points, max_discharge, cfg)
    IN  [i \in 1..Len(day_rows) |->
           IF \E k \in 1..Len(at) : at[k] = i
           THEN allocated[CHOOSE k \in 1..Len(at) : at[k] = i]
           ELSE EOut(day_rows[i], main_formula)]

\* the day's rows with the main formula's discharge column replaced
WithEOut(day_rows, main_formula, e_out) ==
    [i \in 1..Len(day_rows) |->
        IF main_formula = "physics"
        THEN [day_rows[i] EXCEPT !.e_out_physics_kwh = e_out[i]]
        ELSE [day_rows[i] EXCEPT !.e_out_sample_kwh = e_out[i]]]

\* the rows a formula's day metrics are computed from
DayFrame(day_rows, f, formula, discharge_strategy, cfg) ==
    IF discharge_strategy = "price-priority" /\ f = MainFormula(formula)
    THEN WithEOut(day_rows, f, ReallocatedEOut(day_rows, f, cfg))
    ELSE day_rows

\* the days of the summary under a strategy
ProfitDaysByStrategy(rows, formula, discharge_strategy, cfg) ==
    LET dates == {rows[i].date : i \in 1..Len(rows)}
        DayOf(d, f) == DayMetrics(DayFrame(SelectSeq(rows, LAMBDA r : r.date = d), f,
                                           formula, discharge_strategy, cfg), f)
    IN  [d \in dates |->
           WithMain([physics |-> DayOf(d, "physics"), sample |-> DayOf(d, "sample")],
                    formula)]

InitStrategy == Init

\* the second summary of the same frame, with discharge_strategy "price-priority"
ComputeProfitPricePriority ==
    /\ pc = "done" /\ call = None
    /\ \E main_formula \in {MainFormula(energy_formula)} :
       \E e_out \in {IF records = <<>> THEN <<>>
                     ELSE ReallocatedEOut(records, main_formula, storage_cfg)} :
          call' = [fn |-> "compute_profit_summary_step15",
                   discharge_strategy |-> "price-priority",
                   e_out_main |-> e_out,
                   days |-> ProfitDaysByStrategy(records, energy_formula,
                                                 "price-priority", storage_cfg)]
    /\ pc' = "return"
    /\ UNCHANGED Pipeline

NextStrategy ==
    \/ ComputeLimitInfo
    \/ BuildDailyCyclesMasks
    \/ ComputeWindowAvg
    \/ SimBegin
    \/ SimStep
    \/ ComputeProfitSummary
    \/ ComputeProfitPricePriority

SpecStrategy == InitStrategy /\ [][NextStrategy]_vars

OtherFormula(f) == IF f = "physics" THEN "sample" ELSE "physics"

\* C28: against the sequential summary of the same day, price-priority leaves
\* the non-main formula's entry as it is, leaves the main formula's charge
\* energy and cost as they are, gives no point more main-formula discharge
\* energy than it had, and gives the day at most min(sequential discharge
\* energy, day charge energy x DOD x eta), DOD being the usable depth of
\* discharge (the configured one bounded by the SOC band).
C28_PricePriorityFrame ==
    Returned("compute_profit_summary_step15") =>
        LET main == MainFormula(energy_formula)
            seq == profit.days[Date1]
            pri == call.days[Date1]
            ceiling == RMul(RMul(seq[main].charge_energy_kwh, Cfg.effective_dod), Cfg.eta)
        IN  /\ pri[OtherFormula(main)] = seq[OtherFormula(main)]
            /\ pri[main].charge_energy_kwh = seq[main].charge_energy_kwh
            /\ pri[main].cost = seq[main].cost
            /\ \A i \in 1..Len(records) :
                  RLe(call.e_out_main[i], EOut(records[i], main))
            /\ RLe(pri[main].discharge_energy_kwh, seq[main].discharge_energy_kwh)
            /\ RLe(pri[main].discharge_energy_kwh, ceiling)

-----------------------------------------------------------------------------
(* The simulator run twice over the same inputs with different SOC settings:
   build_step15_power_series reads initial_soc, soc_min and soc_max at
   2146-2148 and 2228-2230 and writes current_soc at 2393-2401. *)

\* soc_min, soc_max, initial_soc as a storage configuration may carry them
SocSettings ==
    {[soc_min |-> None, soc_max |-> None, initial_soc |-> None],
     [soc_min |-> None, soc_max |-> None, initial_soc |-> One],
     [soc_min |-> R(2, 5), soc_max |-> R(3, 5), initial_soc |-> One],
     [soc_min |-> R(1, 5), soc_max |-> R(2, 5), initial_soc |-> None],
     [soc_min |-> Zero, soc_max |-> One, initial_soc |-> R(1, 2)]}

\* the second call: the same series, prices, operations and window_debug, the
\* storage configuration changed in its SOC settings only
ChangeSoc ==
    /\ pc = "sim" /\ idx > Len(series_15m) /\ prev_run = None
    /\ \E s \in SocSettings :
          /\ <<s.soc_min, s.soc_max, s.initial_soc>>
                # <<storage_cfg.soc_min, storage_cfg.soc_max, storage_cfg.initial_soc>>
          /\ \E cfg2 \in {[storage_cfg EXCEPT !.soc_min = s.soc_min, !.soc_max = s.soc_max,
                                              !.initial_soc = s.initial_soc]} :
                /\ storage_cfg' = cfg2
                /\ current_soc' = InitialSoc(cfg2)
    /\ prev_run' = [records |-> records, storage_cfg |-> storage_cfg]
    /\ window_targets' = BuildTargets(window_debug, MainFormula(energy_formula), <<>>)
    /\ window_state' = <<>>
    /\ idx' = 1
    /\ records' = <<>>
    /\ UNCHANGED <<pc, energy_formula, metering, series_15m, daily_ops, price_series,
                   limit_info, daily_masks, days, window_debug, trace, profit, call,
                   stored_snapshot>>

NextSoc ==
    \/ ComputeLimitInfo
    \/ BuildDailyCyclesMasks
    \/ ComputeWindowAvg
    \/ SimBegin
    \/ SimStep
    \/ ChangeSoc

SpecSoc == Init /\ [][NextSoc]_vars

\* max(0, min(depth_of_discharge, soc_max - soc_min)) of a storage configuration
EffectiveDodOf(cfg) ==
    RMax(Zero, RMin(OrDefault(cfg.depth_of_discharge, One),
                    RSub(OrDefault(cfg.soc_max, R(19, 20)),
                         OrDefault(cfg.soc_min, R(1, 20)))))

\* a record without its soc column
SocBlindView(rec) == [f \in DOMAIN rec \ {"soc"} |-> rec[f]]

\* the SOC the battery had when point i of a run began
SocBeforeIn(recs, cfg, i) == IF i = 1 THEN InitialSoc(cfg) ELSE recs[i - 1].soc

BothRunsDone == pc = "sim" /\ idx > Len(series_15m) /\ prev_run # None

\* the points of a run that begin at soc_max with charging power, or at
\* soc_min with discharging power
ChargedAtSocMax(recs, cfg) ==
    {i \in 1..Len(recs) : /\ SocBeforeIn(recs, cfg, i) = SimCfg(cfg).soc_max
                          /\ RPos(recs[i].p_batt_kw)}
DischargedAtSocMin(recs, cfg) ==
    {i \in 1..Len(recs) : /\ SocBeforeIn(recs, cfg, i) = SimCfg(cfg).soc_min
                          /\ RPos(RNeg(recs[i].p_batt_kw))}

\* C29: two runs over the same inputs whose storage configurations differ only
\* in initial_soc, soc_min and soc_max, with the same effective DOD, produce
\* the same battery power, the same four energies, the same grid-effect powers
\* and the same window totals at every point: only the soc column may differ.
\* In either run a point that begins with the battery at soc_max and has
\* charging power records charge energy, and one that begins at soc_min and
\* has discharging power records discharge energy.
C29_SocIsOutputOnly ==
    (BothRunsDone /\ EffectiveDodOf(prev_run.storage_cfg) = EffectiveDodOf(storage_cfg))
        => /\ Len(records) = Len(prev_run.records)
           /\ \A i \in 1..Len(records) :
                 SocBlindView(records[i]) = SocBlindView(prev_run.records[i])
           /\ \A run \in {[recs |-> records, cfg |-> storage_cfg],
                           [recs |-> prev_run.records, cfg |-> prev_run.storage_cfg]} :
                 RPos(EffectiveDodOf(run.cfg)) =>
                    /\ \A i \in ChargedAtSocMax(run.recs, run.cfg) :
                          /\ RPos(run.recs[i].e_in_physics_kwh)
                          /\ RPos(run.recs[i].e_in_sample_kwh)
                    /\ \A i \in DischargedAtSocMin(run.recs, run.cfg) :
                          /\ RPos(run.recs[i].e_out_physics_kwh)
                          /\ RPos(run.recs[i].e_out_sample_kwh)

\* two finished runs with the same effective DOD whose soc columns differ, one
\* charging from soc_max at some point and one discharging from soc_min
C29_Witness ==
    /\ BothRunsDone
    /\ EffectiveDodOf(prev_run.storage_cfg) = EffectiveDodOf(storage_cfg)
    /\ \E i \in 1..Len(records) : records[i].soc # prev_run.records[i].soc
    /\ \E i \in 1..Len(records) : RPos(records[i].e_in_physics_kwh)
    /\ ChargedAtSocMax(prev_run.records, prev_run.storage_cfg) # {}
    /\ DischargedAtSocMin(records, storage_cfg) # {}

-----------------------------------------------------------------------------
(* The records of build_step15_power_series over a day that has a schedule
   and a following day that has none: _op_for_ts (2162-2166) finds no list
   for the second day. *)

SignPoints == 2

\* SignPoints points on the day with a schedule, then one on the day without
InitSigns ==
    /\ pc = "limit"
    /\ storage_cfg \in StorageConfigs
    /\ energy_formula \in Formulas
    /\ metering \in Meterings
    /\ \E f \in [1..SignPoints -> HourInputs] :
          /\ series_15m = [i \in 1..(SignPoints + 1) |->
                             IF i <= SignPoints
                             THEN [date |-> Date1, hour |-> HourOfPoint(i),
                                   load_kw |-> f[i].load_kw]
                             ELSE [date |-> Date2, hour |-> 0, load_kw |-> R(180, 1)]]
          /\ daily_ops = (Date1 :> [h \in 1..HoursPerDay |->
                                       IF \E i \in 1..SignPoints : HourOfPoint(i) = h - 1
                                       THEN f[CHOOSE i \in 1..SignPoints :
                                                 HourOfPoint(i) = h - 1].op
                                       ELSE OP_STANDBY])
    /\ price_series = [i \in 1..(SignPoints + 1) |-> PriceOfHour(series_15m[i].hour)]
    /\ limit_info = None
    /\ daily_masks = None
    /\ days = None
    /\ window_debug = None
    /\ window_targets = None
    /\ window_state = <<>>
    /\ current_soc = None
    /\ idx = 0
    /\ records = <<>>
    /\ trace = NoTrace
    /\ profit = None
    /\ prev_run = None
    /\ stored_snapshot = None
    /\ call = None

NextSigns ==
    \/ ComputeLimitInfo
    \/ BuildDailyCyclesMasks
    \/ ComputeWindowAvg
    \/ SimBegin
    \/ SimStep

SpecSigns == InitSigns /\ [][NextSigns]_vars

\* the four energies of a record
EnergiesOf(r) ==
    <<r.e_in_physics_kwh, r.e_in_sample_kwh, r.e_out_physics_kwh, r.e_out_sample_kwh>>

\* the timestamp of record a is before that of record b
Before(a, b) ==
    \/ a.date[1] < b.date[1]
    \/ a.date[1] = b.date[1] /\ a.date[2] < b.date[2]
    \/ a.date = b.date /\ a.hour < b.hour

\* C30: in every record the four energies are >= 0; a standby point, and a
\* point whose date has no operations, has p_batt_kw = 0 and all energies 0; a
\* charge point has p_batt_kw >= 0 and both e_out 0; a discharge point has
\* p_batt_kw <= 0 and both e_in 0; the records are in strictly increasing
\* timestamp order.
C30_SignsAndOrder ==
    /\ \A i \in 1..Len(records) :
          LET r == records[i]
              op == _op_for_ts(daily_ops, r.date, r.hour)
          IN  /\ \A k \in 1..4 : RGe(EnergiesOf(r)[k], Zero)
              /\ (op = NoKind) => r.op = OP_STANDBY
              /\ (r.op = OP_STANDBY)
                    => /\ r.p_batt_kw[1] = 0
                       /\ \A k \in 1..4 : EnergiesOf(r)[k][1] = 0
              /\ (r.op = OP_CHARGE)
                    => /\ RGe(r.p_batt_kw, Zero)
                       /\ r.e_out_physics_kwh[1] = 0 /\ r.e_out_sample_kwh[1] = 0
              /\ (r.op = OP_DISCHARGE)
                    => /\ RLe(r.p_batt_kw, Zero)
                       /\ r.e_in_physics_kwh[1] = 0 /\ r.e_in_sample_kwh[1] = 0
              /\ ~(RPos(r.e_in_physics_kwh) /\ RPos(r.e_out_physics_kwh))
              /\ ~(RPos(r.e_in_sample_kwh) /\ RPos(r.e_out_sample_kwh))
    /\ \A i \in 1..(Len(records) - 1) : Before(records[i], records[i + 1])

\* a finished run with a charging record, a discharging record, and the record
\* of the day without operations
C30_Witness ==
    /\ pc = "sim" /\ idx > Len(series_15m)
    /\ \E i \in 1..Len(records) :
          /\ records[i].op = OP_CHARGE
          /\ RPos(records[i].p_batt_kw) /\ RPos(records[i].e_in_physics_kwh)
    /\ \E i \in 1..Len(records) :
          /\ records[i].op = OP_DISCHARGE
          /\ RPos(RNeg(records[i].p_batt_kw)) /\ RPos(records[i].e_out_sample_kwh)
    /\ \E i \in 1..Len(records) :
          /\ _op_for_ts(daily_ops, records[i].date, records[i].hour) = NoKind
          /\ records[i].op = OP_STANDBY
          /\ RPos(records[i].load_kw)

====
